---- MODULE Spec2Model ----
(***************************************************************************)
(* A model of jupyter_client/connect.py: the process-wide LocalPortCache,  *)
(* the module-level write_connection_file, find_connection_file and        *)
(* tunnel_to_kernel, and the ConnectionFileMixin; and of the               *)
(* KernelProvisionerFactory of jupyter_client/provisioning/factory.py.     *)
(* Each part has a specification of its own; the variables of the other    *)
(* parts stay at their initial values under it.                            *)
(***************************************************************************)
EXTENDS Integers, Sequences, FiniteSets, TLC

(***************************************************************************)
(* Bounds of the model.                                                    *)
(***************************************************************************)
\* The ports the OS hands out to the callers of the cache are 1..PoolSize.
PoolSize == 3
\* The OS has this many ports more than the five channels of one connection.
SparePorts == 0
\* find_available_port calls the sequential caller makes between two returns.
MaxCalls == 3
\* operations on the mixins in one run
MaxOps == 3
\* the latest access time of a file
MaxAtime == 3
\* Threads that use the one LocalPortCache singleton concurrently.
NumThreads == 2
\* calls on the provisioner factory and changes of the installed distributions
MaxFactoryOps == 3
\* select_random_ports picks among this many local ports
TunnelPoolSize == 6

PortPool == 1..PoolSize
Threads == 1..NumThreads

\* The value of a port that is not set, and of a local that holds no port.
NoPort == 0

VARIABLES
    \* ---- LocalPortCache (connect.py:623-654) ----
    currently_used_ports,   \* LocalPortCache.currently_used_ports
    callers,                \* the threads that call into the cache
    pc,                     \* pc[t]: where thread t stands in its call
    tmp_sock,               \* tmp_sock[t]: the port t's transient socket is bound to
    port,                   \* port[t]: the local `port` of t's call
    holding,                \* holding[t]: ports returned to t and not yet given back
    log,                    \* ports find_available_port returned to the one caller since
                            \* the last return_port (kept when the calls are sequential)
    released,               \* ports given back by return_port and not claimed since
    last,                   \* the last completed call: its name, port, set before, error
    \* ---- the file system and the module-level write_connection_file ----
    files,                  \* files[path]: the file at path (absent, empty or JSON)
    ipcfiles,               \* the ipc socket paths that exist, as <<ip, N>> for "ip-N"
    wargs,                  \* the arguments of the write_connection_file call
    wres,                   \* what the call returned or raised
    \* ---- ConnectionFileMixin (connect.py:310-620) ----
    mixin,                  \* mixin[m]: the attributes of mixin instance m
    mlast,                  \* the last mixin call: its name, instance and outcome
    mops,                   \* the number of mixin operations so far
    \* ---- one call of load_connection_info or get_connection_info ----
    largs,                  \* the mixin before the call, and the arguments
    lres,                   \* the call made, the mixin after it, what it returned
    \* ---- find_connection_file (connect.py:179-231) ----
    fatime,                 \* fatime[f]: the access time of file f, 0 when there is none
    fargs,                  \* the arguments of find_connection_file
    fres,                   \* the last call or touch, and what the call returned
    \* ---- KernelProvisionerFactory (provisioning/factory.py) ----
    provisioners,           \* KernelProvisionerFactory.provisioners: name -> entry point
    entry_points,           \* entry_points[n]: the distribution that advertises n
    metadata,               \* metadata[s]: the kernel_provisioner stanza of kernel spec s
    default_provisioner_name,
    pcall,                  \* the last call on the factory and its outcome
    pcalls,                 \* the number of factory operations so far
    \* ---- tunnel_to_kernel (connect.py:234-292) ----
    targs,                  \* the arguments of the call
    tres                    \* the tunnels it opened and what it returned

cacheVars == <<currently_used_ports, callers, pc, tmp_sock, port, holding, log,
               released, last>>
fsVars == <<files, ipcfiles>>
writeVars == <<wargs, wres>>

mixinVars == <<mixin, mlast, mops>>

loadVars == <<largs, lres>>
\* the variables of the specifications of one call
findVars == <<fatime, fargs, fres>>
factoryVars == <<provisioners, entry_points, metadata, default_provisioner_name,
                 pcall, pcalls>>
tunnelVars == <<targs, tres>>
otherVars == <<factoryVars, tunnelVars>>
pureVars == <<loadVars, findVars, otherVars>>

vars == <<cacheVars, fsVars, writeVars, mixinVars, pureVars>>
notCache == <<fsVars, writeVars, mixinVars, pureVars>>
notFactory == <<cacheVars, fsVars, writeVars, mixinVars, loadVars, findVars, tunnelVars>>
notTunnel == <<cacheVars, fsVars, writeVars, mixinVars, loadVars, findVars, factoryVars>>

NoCall == [op |-> "none", port |-> NoPort, before |-> {}, raised |-> FALSE]

(***************************************************************************)
(* LocalPortCache                                                          *)
(***************************************************************************)

\* tmp_sock.bind((ip, 0)): the OS picks any port no socket is bound to now.
\* A claimed port whose socket is closed is free for the OS to pick again.
BindablePorts == PortPool \ {tmp_sock[t] : t \in Threads}

PortIsClaimedMut(p, used) == FALSE
PortIsClaimedAlwaysMut(p, used) == TRUE
\* `port not in self.currently_used_ports`, negated
PortIsClaimed(p, used) == p \in used

SetRemoveMut(used, p) == [set |-> used, raised |-> FALSE]
\* set.remove(port): KeyError when the port is not a member
SetRemove(used, p) ==
    IF p \in used THEN [set |-> used \ {p}, raised |-> FALSE]
                  ELSE [set |-> used, raised |-> TRUE]

ReturnGuardMut(p, used) == TRUE
\* `if port in self.currently_used_ports` of return_port
ReturnGuard(p, used) == p \in used

\* Ports another caller was given and still holds.
HeldByOthers(t) == UNION {holding[u] : u \in callers \ {t}}

\* A caller enters find_available_port: `while True:`
FindCall(t) ==
    /\ t \in callers
    /\ UNCHANGED notCache
    /\ pc[t] = "idle"
    /\ Len(log) < MaxCalls
    /\ pc' = [pc EXCEPT ![t] = "bind"]
    /\ UNCHANGED <<currently_used_ports, callers, tmp_sock, port, holding, log,
                   released, last>>

\* tmp_sock = socket.socket(); tmp_sock.bind((ip, 0)); port = getsockname()[1]
FindBind(t) ==
    /\ t \in callers
    /\ UNCHANGED notCache
    /\ pc[t] = "bind"
    /\ \E p \in BindablePorts :
          /\ tmp_sock' = [tmp_sock EXCEPT ![t] = p]
          /\ port' = [port EXCEPT ![t] = p]
    /\ pc' = [pc EXCEPT ![t] = "close"]
    /\ UNCHANGED <<currently_used_ports, callers, holding, log, released, last>>

\* tmp_sock.close()
FindClose(t) ==
    /\ t \in callers
    /\ UNCHANGED notCache
    /\ pc[t] = "close"
    /\ tmp_sock' = [tmp_sock EXCEPT ![t] = NoPort]
    /\ pc' = [pc EXCEPT ![t] = "check"]
    /\ UNCHANGED <<currently_used_ports, callers, port, holding, log, released, last>>

\* if port not in self.currently_used_ports: (otherwise: the next iteration)
FindCheck(t) ==
    /\ t \in callers
    /\ UNCHANGED notCache
    /\ pc[t] = "check"
    /\ pc' = [pc EXCEPT ![t] =
                 IF PortIsClaimed(port[t], currently_used_ports) THEN "bind" ELSE "add"]
    /\ UNCHANGED <<currently_used_ports, callers, tmp_sock, port, holding, log,
                   released, last>>

\* self.currently_used_ports.add(port); return port
FindAdd(t) ==
    /\ t \in callers
    /\ UNCHANGED notCache
    /\ pc[t] = "add"
    /\ currently_used_ports' = currently_used_ports \cup {port[t]}
    /\ holding' = [holding EXCEPT ![t] = @ \cup {port[t]}]
    /\ log' = IF callers = {t} THEN Append(log, port[t]) ELSE log
    /\ released' = released \ {port[t]}
    /\ last' = [op |-> "find", port |-> port[t], before |-> currently_used_ports,
                raised |-> FALSE]
    /\ pc' = [pc EXCEPT ![t] = "idle"]
    /\ port' = [port EXCEPT ![t] = NoPort]
    /\ UNCHANGED <<callers, tmp_sock>>

\* A caller enters return_port(p), for a port of its own or one nobody was given.
ReturnCall(t) ==
    /\ t \in callers
    /\ UNCHANGED notCache
    /\ pc[t] = "idle"
    /\ \E p \in holding[t] \cup (PortPool \ HeldByOthers(t)) :
          port' = [port EXCEPT ![t] = p]
    /\ pc' = [pc EXCEPT ![t] = "rcheck"]
    /\ UNCHANGED <<currently_used_ports, callers, tmp_sock, holding, log, released, last>>

\* if port in self.currently_used_ports:  # Tolerate uncached ports
ReturnCheck(t) ==
    /\ t \in callers
    /\ UNCHANGED notCache
    /\ pc[t] = "rcheck"
    /\ IF ReturnGuard(port[t], currently_used_ports)
          THEN /\ pc' = [pc EXCEPT ![t] = "remove"]
               /\ UNCHANGED <<currently_used_ports, callers, tmp_sock, port, holding,
                              log, released, last>>
          ELSE /\ pc' = [pc EXCEPT ![t] = "idle"]
               /\ port' = [port EXCEPT ![t] = NoPort]
               /\ holding' = [holding EXCEPT ![t] = @ \ {port[t]}]
               /\ log' = <<>>
               /\ last' = [op |-> "return", port |-> port[t],
                           before |-> currently_used_ports, raised |-> FALSE]
               /\ UNCHANGED <<currently_used_ports, callers, tmp_sock, released>>

\* self.currently_used_ports.remove(port)
ReturnRemove(t) ==
    /\ t \in callers
    /\ UNCHANGED notCache
    /\ pc[t] = "remove"
    /\ LET r == SetRemove(currently_used_ports, port[t]) IN
          /\ currently_used_ports' = r.set
          /\ last' = [op |-> "return", port |-> port[t],
                      before |-> currently_used_ports, raised |-> r.raised]
          /\ released' = IF port[t] \in r.set THEN released ELSE released \cup {port[t]}
    /\ holding' = [holding EXCEPT ![t] = @ \ {port[t]}]
    /\ log' = <<>>
    /\ pc' = [pc EXCEPT ![t] = "idle"]
    /\ port' = [port EXCEPT ![t] = NoPort]
    /\ UNCHANGED <<callers, tmp_sock>>

(***************************************************************************)
(* Connection info, files and text                                         *)
(***************************************************************************)

\* The five port arguments, in the order write_connection_file fills them in.
ChannelOrder == <<"shell_port", "iopub_port", "stdin_port", "control_port", "hb_port">>
PortNames == {ChannelOrder[k] : k \in 1..Len(ChannelOrder)}
ChannelIndex(n) == CHOOSE k \in 1..Len(ChannelOrder) : ChannelOrder[k] = n

\* The keys a connection info dict written by write_connection_file has.
AllKeys == PortNames \cup {"ip", "key", "transport", "signature_scheme", "kernel_name"}

\* localhost() of jupyter_client.localinterfaces: the loopback address.
localhost == "127.0.0.1"

\* bytes.decode(): UTF-8, strict. A byte string is a sequence of bytes, a text a
\* sequence of code points; one- and two-byte forms are modelled (bytes < 224).
RECURSIVE utf8_decode(_)
utf8_decode(b) ==
    IF b = <<>> THEN [ok |-> TRUE, text |-> <<>>]
    ELSE IF b[1] < 128
        THEN LET r == utf8_decode(Tail(b))
             IN  [ok |-> r.ok, text |-> IF r.ok THEN <<b[1]>> \o r.text ELSE <<>>]
    ELSE IF b[1] \in 194..223 /\ Len(b) >= 2 /\ b[2] \in 128..191
        THEN LET r == utf8_decode(Tail(Tail(b)))
             IN  [ok |-> r.ok,
                  text |-> IF r.ok THEN <<(b[1] - 192) * 64 + (b[2] - 128)>> \o r.text
                                   ELSE <<>>]
    ELSE [ok |-> FALSE, text |-> <<>>]

\* str.encode(): UTF-8 (code points < 2048).
RECURSIVE utf8_encode(_)
utf8_encode(s) ==
    IF s = <<>> THEN <<>>
    ELSE IF s[1] < 128 THEN <<s[1]>> \o utf8_encode(Tail(s))
    ELSE <<192 + (s[1] \div 64), 128 + (s[1] % 64)>> \o utf8_encode(Tail(s))

\* A key as a dict holds it: text (from JSON) or bytes.
TextKey(s) == [kind |-> "str", val |-> s]
BytesKey(b) == [kind |-> "bytes", val |-> b]

NoPorts == [n \in PortNames |-> NoPort]
NoCfg == [keys |-> {}, ports |-> NoPorts, ip |-> "", key |-> TextKey(<<>>),
          transport |-> "", signature_scheme |-> "", kernel_name |-> ""]

\* A file: absent, empty (just created), or holding the JSON of a cfg.
\* json.dumps and json.load keep integers and strings as they are.
AbsentFile == [state |-> "absent", cfg |-> NoCfg]
EmptyFile == [state |-> "empty", cfg |-> NoCfg]
JsonFile(cfg) == [state |-> "json", cfg |-> cfg]

\* os.path.exists(path)
PathExists(fs, path) == path # "" /\ fs[path].state # "absent"

(***************************************************************************)
(* write_connection_file (connect.py:48-176)                               *)
(***************************************************************************)

\* int(shell_port <= 0) + ... + int(hb_port <= 0)
ports_needed(p) == Cardinality({n \in PortNames : p[n] <= 0})

\* The ports the OS hands out to the sockets of write_connection_file.
SocketPorts == 1..(Len(ChannelOrder) + SparePorts)

RECURSIVE SeqsOver(_, _)
SeqsOver(S, n) ==
    IF n = 0 THEN {<<>>}
    ELSE UNION {{<<p>> \o s : s \in SeqsOver(S, n - 1)} : p \in S}

RECURSIVE DistinctSeqsOver(_, _)
DistinctSeqsOver(S, n) ==
    IF n = 0 THEN {<<>>}
    ELSE UNION {{<<p>> \o s : s \in DistinctSeqsOver(S \ {p}, n - 1)} : p \in S}

BoundSocketPortsMut(n) == SeqsOver(SocketPorts, n)
\* The ports of n sockets bound to (ip, 0) one after another, all of them open
\* until the last is bound: the OS gives each a port no open socket has.
BoundSocketPorts(n) == DistinctSeqsOver(SocketPorts, n)

\* The ipc branch: N = 1; per port: skip the N whose path exists, take N, N += 1
RECURSIVE IpcNumbers(_, _, _)
IpcNumbers(existing, needed, N) ==
    IF needed = 0 THEN <<>>
    ELSE IF N \in existing THEN IpcNumbers(existing, needed, N + 1)
    ELSE <<N>> \o IpcNumbers(existing, needed - 1, N + 1)

\* os.path.exists("%s-%s" % (ip, N)) for the N that exist
IpcExisting(ipc, ip) == {e[2] : e \in {x \in ipc : x[1] = ip}}

PortIsUnsetMut(v) == v = 0
\* `<name>_port <= 0`: the argument asks for a port to be chosen
PortIsUnset(v) == v <= 0

\* How many of the arguments up to and including channel k take a fresh port.
UnsetUpTo(p, k) == Cardinality({j \in 1..k : PortIsUnset(p[ChannelOrder[j]])})

AssignPortsMut(p, fresh) ==
    [n \in PortNames |-> IF PortIsUnset(p[n]) THEN fresh[1] ELSE p[n]]
\* if shell_port <= 0: shell_port = ports.pop(0); ... iopub, stdin, control, hb
AssignPorts(p, fresh) ==
    [n \in PortNames |->
        IF PortIsUnset(p[n]) THEN fresh[UnsetUpTo(p, ChannelIndex(n))] ELSE p[n]]

DefaultIpMut(ip) == ip
\* if not ip: ip = localhost()
DefaultIp(ip) == IF ip = "" THEN localhost ELSE ip

\* What the call computes from its arguments a, given the ports `fresh` the OS
\* chose (tcp), the temporary name mkstemp made and the ipc paths that exist;
\* `allocated` is the list `ports` before the first pop, kept for a call that
\* returns.
write_connection_file(a, fresh, tmpname, ipc) ==
    LET ip == DefaultIp(a.ip)
        fname == IF a.fname = "" THEN tmpname ELSE a.fname
        new == IF a.transport = "tcp" THEN fresh
               ELSE IpcNumbers(IpcExisting(ipc, ip), ports_needed(a.ports), 1)
        key == utf8_decode(a.key)
        cfg == [keys |-> AllKeys,
                ports |-> AssignPorts(a.ports, new),
                ip |-> ip,
                key |-> TextKey(key.text),
                transport |-> a.transport,
                signature_scheme |-> a.signature_scheme,
                kernel_name |-> a.kernel_name]
    IN  IF key.ok
        THEN [raised |-> "", fname |-> fname, cfg |-> cfg, allocated |-> new]
        ELSE [raised |-> "UnicodeDecodeError", fname |-> fname, cfg |-> NoCfg,
              allocated |-> <<>>]

\* The files after the call: mkstemp creates the temporary file, and
\* secure_write(fname) puts the JSON there unless the call raised before it.
FilesAfterWrite(fs, a, r) ==
    LET made == IF a.fname = "" THEN [fs EXCEPT ![r.fname] = EmptyFile] ELSE fs
    IN  IF r.raised = "" THEN [made EXCEPT ![r.fname] = JsonFile(r.cfg)] ELSE made

\* The ports the OS may choose for the call: one per unset port under tcp.
FreshChoices(a) ==
    IF a.transport = "tcp" THEN BoundSocketPorts(ports_needed(a.ports)) ELSE {<<>>}

(***************************************************************************)
(* The module-level function called on its own                             *)
(***************************************************************************)

ConfigPaths == {"kernel-a.json"}
TmpNames == {"tmp-1.json", "tmp-2.json"}
Paths == ConfigPaths \cup TmpNames

\* tempfile.mkstemp(".json"): a name no file has
FreshTmpNames(fs) == {p \in TmpNames : ~PathExists(fs, p)}

\* The name mkstemp makes when no fname is given; none is made otherwise.
TmpChoices(fs, fname) == IF fname = "" THEN FreshTmpNames(fs) ELSE {""}

\* Port arguments: unset (negative, zero) or configured.
PortInputs == {-1, 0, 2, 4}
\* Keys: empty, ASCII and two-byte text, and bytes that are not UTF-8.
KeyInputs == {<<>>, <<97, 195, 169>>, <<195>>}

NoResult == [raised |-> "none", fname |-> "", cfg |-> NoCfg, allocated |-> <<>>]

WriteInputs ==
    [fname : {"", "kernel-a.json"},
     ports : [PortNames -> PortInputs],
     ip : {"", "10.0.0.5"},
     key : KeyInputs,
     transport : {"tcp", "ipc"},
     signature_scheme : {"hmac-sha256"},
     kernel_name : {""}]

FsInit ==
    /\ files = [p \in Paths |-> AbsentFile]
    /\ ipcfiles = {}

WriteIdle ==
    /\ wargs = [fname |-> "", ports |-> NoPorts, ip |-> "", key |-> <<>>,
                transport |-> "tcp", signature_scheme |-> "hmac-sha256",
                kernel_name |-> ""]
    /\ wres = NoResult

\* write_connection_file(fname, shell_port, ..., kernel_name)
WriteCall ==
    /\ wres.raised = "none"
    /\ \E fresh \in FreshChoices(wargs), tmpname \in TmpChoices(files, wargs.fname) :
          LET r == write_connection_file(wargs, fresh, tmpname, ipcfiles) IN
             /\ wres' = r
             /\ files' = FilesAfterWrite(files, wargs, r)
    /\ UNCHANGED <<cacheVars, ipcfiles, wargs, mixinVars, pureVars>>

(***************************************************************************)
(* ConnectionFileMixin (connect.py:310-568)                                *)
(***************************************************************************)

\* Two instances in one process: A is configured, B is freshly constructed.
Mixins == {"A", "B"}
\* A is a kernel manager: it writes its connection file and starts the kernel.
\* B is a client of that kernel: it loads connection info and cleans up.
Managers == {"A"}

\* port_names: the order the mixin goes through its ports
port_names == <<"shell_port", "stdin_port", "iopub_port", "hb_port", "control_port">>

\* The ip trait before its first read: the default is computed when it is read.
LazyIp == "<default>"

\* os.path.splitext(connection_file)[0] + "-ipc"
IpcNameOf(path) ==
    CASE path = "kernel-a.json" -> "kernel-a-ipc"
      [] path = "tmp-1.json" -> "tmp-1-ipc"
      [] path = "tmp-2.json" -> "tmp-2-ipc"
      [] OTHER -> "-ipc"

\* _ip_default
ip_default(x) ==
    IF x.transport # "ipc" THEN localhost
    ELSE IF x.connection_file # "" THEN IpcNameOf(x.connection_file)
    ELSE "kernel-ipc"

\* Reading self.ip: the first read of an unset trait fixes its default.
ReadIp(x) == IF x.ip = LazyIp THEN ip_default(x) ELSE x.ip

\* _ip_changed: "*" becomes "0.0.0.0"
ObservedIp(v) == IF v = "*" THEN "0.0.0.0" ELSE v

NoRandom == [recorded |-> FALSE, names |-> {}]

RecordsAsRandomMut(v) == v = 0
\* `getattr(self, name) <= 0` of _record_random_port_names
RecordsAsRandom(v) == v <= 0

AlreadyRecordedMut(x) == FALSE
\* `self._random_port_names is not None`
AlreadyRecorded(x) == x.random.recorded

\* _record_random_port_names: on the first call under tcp, the ports not set
record_random_port_names(x) ==
    IF x.transport # "tcp" THEN x
    ELSE IF AlreadyRecorded(x) THEN x
    ELSE [x EXCEPT !.random =
            [recorded |-> TRUE,
             names |-> {port_names[k] : k \in {j \in 1..Len(port_names) :
                                                 RecordsAsRandom(x.ports[port_names[j]])}}]]

\* os.remove(path): the files after it, and the error it raised (no such file:
\* FileNotFoundError, an OSError)
OsRemove(fs, path) ==
    IF PathExists(fs, path) THEN [files |-> [fs EXCEPT ![path] = AbsentFile], raised |-> ""]
                            ELSE [files |-> fs, raised |-> "OSError"]

CaughtByCleanupMut == {"AttributeError"}
\* `except (IOError, OSError, AttributeError): pass`
CaughtByCleanup == {"IOError", "OSError", "AttributeError"}

CleanupGuardMut(x) == TRUE
\* `if self._connection_file_written:` of cleanup_connection_file
CleanupGuard(x) == x.written

\* cleanup_connection_file: what it leaves, whether it removed a file, and the
\* error it lets through (OSError from os.remove is caught)
cleanup_connection_file(x, fs) ==
    IF CleanupGuard(x)
    THEN LET r == OsRemove(fs, x.connection_file)
         IN  [mixin |-> [x EXCEPT !.written = FALSE], files |-> r.files,
              removed |-> r.raised = "",
              raised |-> IF r.raised \in CaughtByCleanup THEN "" ELSE r.raised]
    ELSE [mixin |-> x, files |-> fs, removed |-> FALSE, raised |-> ""]

RandomPortsResetMut(x) == [x EXCEPT !.ports = NoPorts]
\* `for name in self._random_port_names: setattr(self, name, 0)`
RandomPortsReset(x) ==
    [x EXCEPT !.ports = [n \in PortNames |->
                            IF n \in x.random.names THEN NoPort ELSE x.ports[n]]]

\* cleanup_random_ports
cleanup_random_ports(x, fs) ==
    IF ~x.random.recorded \/ x.random.names = {}
    THEN [mixin |-> x, files |-> fs, removed |-> FALSE, raised |-> ""]
    ELSE cleanup_connection_file(RandomPortsReset(x), fs)

AlreadyWrittenMut(x, fs) == FALSE
\* `self._connection_file_written and os.path.exists(self.connection_file)`
AlreadyWritten(x, fs) == x.written /\ PathExists(fs, x.connection_file)

\* The arguments ConnectionFileMixin.write_connection_file passes on.
WriteArgs(x) ==
    [fname |-> x.connection_file, ports |-> x.ports, ip |-> ReadIp(x), key |-> x.key,
     transport |-> x.transport, signature_scheme |-> x.signature_scheme,
     kernel_name |-> x.kernel_name]

\* ConnectionFileMixin.write_connection_file, given what the OS chooses
mixin_write(x, fs, fresh, tmpname, ipc) ==
    IF AlreadyWritten(x, fs)
    THEN [mixin |-> x, files |-> fs, raised |-> "", noop |-> TRUE, wrote |-> FALSE]
    ELSE LET a == WriteArgs(x)
             r == write_connection_file(a, fresh, tmpname, ipc)
             read == [x EXCEPT !.ip = a.ip]
         IN  IF r.raised # ""
             THEN [mixin |-> read, files |-> FilesAfterWrite(fs, a, r), raised |-> r.raised,
                   noop |-> FALSE, wrote |-> FALSE]
             ELSE [mixin |-> [record_random_port_names(
                                 [read EXCEPT !.connection_file = r.fname])
                                EXCEPT !.ports = r.cfg.ports, !.written = TRUE],
                   files |-> FilesAfterWrite(fs, a, r), raised |-> "",
                   noop |-> FALSE, wrote |-> TRUE]

LoadsPortMut(v) == TRUE
\* `getattr(self, name) == 0`: the port is not overridden by config or cl_args
LoadsPort(v) == v = 0

KeyBytesMut(k) == k.val
\* The bytes of a key of a dict: text is encoded
KeyBytes(k) == IF k.kind = "str" THEN utf8_encode(k.val) ELSE k.val

\* load_connection_info
load_connection_info(x, info) ==
    LET t == [x EXCEPT !.transport =
                 IF "transport" \in info.keys THEN info.transport ELSE x.transport]
        i == [t EXCEPT !.ip =
                 ObservedIp(IF "ip" \in info.keys THEN info.ip ELSE ip_default(t))]
        r == record_random_port_names(i)
    IN  [r EXCEPT
           !.ports = [n \in PortNames |->
                        IF LoadsPort(r.ports[n]) /\ n \in info.keys THEN info.ports[n]
                        ELSE r.ports[n]],
           !.key = IF "key" \in info.keys THEN KeyBytes(info.key) ELSE r.key,
           !.signature_scheme = IF "signature_scheme" \in info.keys
                                   THEN info.signature_scheme ELSE r.signature_scheme]

ForceResetMut(x) == [x EXCEPT !.written = FALSE]
\* The reset of _force_connection_info: the flag cleared, every port set to 0
ForceReset(x) == [x EXCEPT !.written = FALSE, !.ports = NoPorts]

\* _force_connection_info: reset, load, write
force_connection_info(x, info, fs, fresh, tmpname, ipc) ==
    mixin_write(load_connection_info(ForceReset(x), info), fs, fresh, tmpname, ipc)

\* The ports the OS may choose for a write of x. Under the mixin's specification
\* the OS hands out a run of consecutive ports, and mkstemp the first name free
\* (the names are interchangeable).
ConsecutivePorts(n) ==
    {[i \in 1..n |-> k + i - 1] : k \in 1..(Cardinality(SocketPorts) - n + 1)}
MixinFreshChoices(x, fs) ==
    IF AlreadyWritten(x, fs) \/ x.transport # "tcp" THEN {<<>>}
    ELSE ConsecutivePorts(ports_needed(x.ports))
MixinTmpChoices(x, fs) ==
    IF AlreadyWritten(x, fs) \/ x.connection_file # "" THEN {""}
    ELSE IF "tmp-1.json" \in FreshTmpNames(fs) THEN {"tmp-1.json"}
    ELSE FreshTmpNames(fs)

\* cleanup_ipc_files: the ipc socket paths left
cleanup_ipc_files(x, ipc) ==
    IF x.transport # "ipc" THEN ipc
    ELSE ipc \ {<<ReadIp(x), x.ports[n]>> : n \in PortNames}

\* Connection info a caller may hand to load_connection_info: all of another
\* kernel's, a few ports only, and an ipc kernel's with its key as bytes.
InfoFull ==
    [keys |-> AllKeys,
     ports |-> [n \in PortNames |-> 20 + ChannelIndex(n)],
     ip |-> "10.0.0.9", key |-> TextKey(<<107, 195, 169>>), transport |-> "tcp",
     signature_scheme |-> "hmac-sha1", kernel_name |-> "ir"]
InfoPartial ==
    [keys |-> {"shell_port", "iopub_port"},
     ports |-> [n \in PortNames |-> IF n = "shell_port" THEN 31 ELSE
                                    IF n = "iopub_port" THEN 32 ELSE NoPort],
     ip |-> "", key |-> TextKey(<<>>), transport |-> "",
     signature_scheme |-> "", kernel_name |-> ""]
InfoIpc ==
    [keys |-> AllKeys \ {"kernel_name"},
     ports |-> [n \in PortNames |-> ChannelIndex(n)],
     ip |-> "kernel-x-ipc", key |-> BytesKey(<<107>>), transport |-> "ipc",
     signature_scheme |-> "hmac-sha256", kernel_name |-> ""]
InfoSet == {InfoFull, InfoPartial, InfoIpc}
\* Info that names a port without a value for it yet (0).
InfoZero ==
    [keys |-> PortNames \cup {"signature_scheme"},
     ports |-> [n \in PortNames |-> IF n = "shell_port" THEN NoPort
                                    ELSE 50 + ChannelIndex(n)],
     ip |-> "", key |-> TextKey(<<>>), transport |-> "",
     signature_scheme |-> "hmac-md5", kernel_name |-> ""]
\* The info _force_connection_info is called with.
ForceInfos == InfoSet \cup {InfoZero}

\* The record of a call: its name, its instance, the error it raised, whether it
\* returned at once, whether it wrote a file, whether it removed one, and the path
\* or the info it was given.
NoMixinCall ==
    [op |-> "none", m |-> "A", raised |-> "", noop |-> FALSE, wrote |-> FALSE,
     removed |-> FALSE, path |-> "", info |-> NoCfg]
Called(op, m, r) ==
    [NoMixinCall EXCEPT !.op = op, !.m = m, !.raised = r.raised, !.noop = r.noop,
                        !.wrote = r.wrote, !.removed = r.removed]

\* One more operation, while the run has operations left.
Step == mops < MaxOps /\ mops' = mops + 1

\* m.write_connection_file()
MixinWrite(m) ==
    /\ Step
    /\ \E fresh \in MixinFreshChoices(mixin[m], files),
          tmpname \in MixinTmpChoices(mixin[m], files) :
          LET r == mixin_write(mixin[m], files, fresh, tmpname, ipcfiles) IN
             /\ mixin' = [mixin EXCEPT ![m] = r.mixin]
             /\ files' = r.files
             /\ mlast' = Called("write", m, r @@ [removed |-> FALSE])
    /\ UNCHANGED <<cacheVars, writeVars, pureVars, ipcfiles>>

\* m.cleanup_connection_file()
CleanupConnectionFile(m) ==
    /\ Step
    /\ LET r == cleanup_connection_file(mixin[m], files) IN
          /\ mixin' = [mixin EXCEPT ![m] = r.mixin]
          /\ files' = r.files
          /\ mlast' = Called("cleanup", m, r @@ [noop |-> ~mixin[m].written, wrote |-> FALSE])
    /\ UNCHANGED <<cacheVars, writeVars, pureVars, ipcfiles>>

\* m.cleanup_random_ports()
CleanupRandomPorts(m) ==
    /\ Step
    /\ LET r == cleanup_random_ports(mixin[m], files) IN
          /\ mixin' = [mixin EXCEPT ![m] = r.mixin]
          /\ files' = r.files
          /\ mlast' = Called("cleanup_random", m,
                             r @@ [noop |-> r.mixin = mixin[m], wrote |-> FALSE])
    /\ UNCHANGED <<cacheVars, writeVars, pureVars, ipcfiles>>

\* m.load_connection_file(path), for the connection file of one of the instances
LoadConnectionFile(m) ==
    /\ Step
    /\ \E k \in Mixins :
          LET path == mixin[k].connection_file IN
             /\ path # ""
             /\ IF files[path].state = "json"
                   THEN /\ mixin' = [mixin EXCEPT ![m] =
                                        load_connection_info(mixin[m], files[path].cfg)]
                        /\ mlast' = [NoMixinCall EXCEPT !.op = "load_file", !.m = m,
                                        !.path = path]
                   ELSE /\ mixin' = mixin
                        /\ mlast' = [NoMixinCall EXCEPT !.op = "load_file", !.m = m,
                                        !.path = path,
                                        !.raised = IF files[path].state = "absent"
                                                      THEN "FileNotFoundError"
                                                      ELSE "JSONDecodeError"]
    /\ UNCHANGED <<cacheVars, writeVars, pureVars, fsVars>>

\* m.load_connection_info(info)
LoadConnectionInfo(m) ==
    /\ Step
    /\ \E info \in InfoSet :
          /\ mixin' = [mixin EXCEPT ![m] = load_connection_info(mixin[m], info)]
          /\ mlast' = [NoMixinCall EXCEPT !.op = "load_info", !.m = m, !.info = info]
    /\ UNCHANGED <<cacheVars, writeVars, pureVars, fsVars>>

\* m._force_connection_info(info)
ForceConnectionInfo(m) ==
    /\ Step
    /\ \E info \in ForceInfos :
          LET loaded == load_connection_info(ForceReset(mixin[m]), info)
          IN  \E fresh \in MixinFreshChoices(loaded, files),
                 tmpname \in MixinTmpChoices(loaded, files) :
                 LET r == force_connection_info(mixin[m], info, files, fresh, tmpname,
                                                ipcfiles) IN
                    /\ mixin' = [mixin EXCEPT ![m] = r.mixin]
                    /\ files' = r.files
                    /\ mlast' = [Called("force", m, r @@ [removed |-> FALSE])
                                    EXCEPT !.info = info]
    /\ UNCHANGED <<cacheVars, writeVars, pureVars, ipcfiles>>

\* m.cleanup_ipc_files()
CleanupIpcFiles(m) ==
    /\ Step
    /\ ipcfiles' = cleanup_ipc_files(mixin[m], ipcfiles)
    /\ mixin' = [mixin EXCEPT ![m].ip = IF mixin[m].transport = "ipc"
                                           THEN ReadIp(mixin[m]) ELSE @]
    /\ mlast' = [NoMixinCall EXCEPT !.op = "cleanup_ipc", !.m = m,
                    !.removed = ipcfiles' # ipcfiles]
    /\ UNCHANGED <<cacheVars, writeVars, pureVars, files>>

\* Somebody removes a connection file that exists (os.remove by its owner).
RemoveFile ==
    /\ Step
    /\ \E path \in {p \in Paths : PathExists(files, p)} :
          files' = [files EXCEPT ![path] = AbsentFile]
    /\ mlast' = [NoMixinCall EXCEPT !.op = "removed_outside"]
    /\ UNCHANGED <<cacheVars, writeVars, pureVars, ipcfiles, mixin>>

\* The kernel a mixin started binds its ipc sockets: their paths come to exist.
KernelBindsIpc(m) ==
    /\ Step
    /\ mixin[m].transport = "ipc"
    /\ mixin[m].written
    /\ mixin[m].ip # LazyIp
    /\ ipcfiles' = ipcfiles \cup {<<mixin[m].ip, mixin[m].ports[n]>> : n \in PortNames}
    /\ ipcfiles' # ipcfiles
    /\ mlast' = [NoMixinCall EXCEPT !.op = "kernel_binds", !.m = m]
    /\ UNCHANGED <<cacheVars, writeVars, pureVars, files, mixin>>

MixinNext ==
    \/ \E m \in Managers : MixinWrite(m)
    \/ \E m \in Mixins : CleanupConnectionFile(m)
    \/ \E m \in Managers : CleanupRandomPorts(m)
    \/ \E m \in Mixins : LoadConnectionFile(m)
    \/ \E m \in Mixins : LoadConnectionInfo(m)
    \/ \E m \in Managers : ForceConnectionInfo(m)
    \/ \E m \in Mixins : CleanupIpcFiles(m)
    \/ \E m \in Managers : KernelBindsIpc(m)
    \/ RemoveFile

\* The port a configuration gives a channel when it sets it.
ConfiguredPort(n) == 10 + ChannelIndex(n)

\* A freshly constructed mixin: the trait defaults, and a key of the session's own.
FreshMixin ==
    [connection_file |-> "", written |-> FALSE, transport |-> "tcp", kernel_name |-> "",
     ip |-> LazyIp, ports |-> NoPorts, random |-> NoRandom, key |-> <<98>>,
     signature_scheme |-> "hmac-sha256"]

\* The configurations of a mixin: no port set, shell_port negative, two ports
\* set, all ports set; either transport, the ip set or not, the file named or not;
\* the key is UTF-8 text, or bytes that are not.
ConfiguredPorts ==
    {NoPorts,
     [NoPorts EXCEPT !["shell_port"] = -1],
     [n \in PortNames |-> IF n \in {"hb_port", "control_port"}
                             THEN ConfiguredPort(n) ELSE NoPort],
     [n \in PortNames |-> ConfiguredPort(n)]}
AllConfiguredMixins ==
    {[FreshMixin EXCEPT !.ports = p, !.transport = t, !.ip = i,
                        !.connection_file = f, !.key = k,
                        !.kernel_name = "python3",
                        !.signature_scheme = "hmac-sha512"] :
        p \in ConfiguredPorts,
        t \in {"tcp", "ipc"},
        i \in {LazyIp, "10.0.0.5"},
        f \in {"", "kernel-a.json"},
        k \in {<<97, 195, 169>>, <<195>>}}
\* The configurations the runs of several operations start from: those that set
\* ports, or the ip, or a key that is not UTF-8, but not two of these at once.
ConfiguredMixins ==
    {x \in AllConfiguredMixins :
        /\ x.key = <<195>> => (x.ports = NoPorts /\ x.ip = LazyIp)
        /\ x.ip # LazyIp => x.ports = NoPorts}

MixinIdle ==
    /\ mixin = [m \in Mixins |-> FreshMixin]
    /\ mlast = NoMixinCall
    /\ mops = 0

(***************************************************************************)
(* One call of load_connection_info or get_connection_info on one mixin    *)
(***************************************************************************)

\* The session of a mixin, as get_connection_info sees it: an object with an
\* identity, its key and its signature scheme.
LiveSession(x) == [id |-> "live", key |-> x.key, signature_scheme |-> x.signature_scheme]

CloneOfMut(sess) == sess
\* Session.clone(): another object with the same key and scheme
CloneOf(sess) == [sess EXCEPT !.id = "clone"]

NoSession == [id |-> "", key |-> <<>>, signature_scheme |-> ""]

SessionEntriesMut(session) == {"signature_scheme", "key", "session"}
\* The entries get_connection_info adds to transport, ip and the ports.
SessionEntries(session) == IF session THEN {"session"} ELSE {"signature_scheme", "key"}

\* get_connection_info(session): the dict returned, and the mixin after the call
\* (reading self.ip fixes its default).
get_connection_info(x, session) ==
    LET added == SessionEntries(session) IN
    [keys |-> PortNames \cup {"transport", "ip"} \cup added,
     transport |-> x.transport,
     ip |-> ReadIp(x),
     ports |-> x.ports,
     signature_scheme |-> IF "signature_scheme" \in added THEN x.signature_scheme ELSE "",
     key |-> IF "key" \in added THEN BytesKey(x.key) ELSE BytesKey(<<>>),
     session |-> IF "session" \in added THEN CloneOf(LiveSession(x)) ELSE NoSession]

\* Connection info whose ip is "*".
InfoStar ==
    [keys |-> {"ip", "transport", "hb_port", "key"},
     ports |-> [n \in PortNames |-> IF n = "hb_port" THEN 45 ELSE NoPort],
     ip |-> "*", key |-> TextKey(<<>>), transport |-> "tcp",
     signature_scheme |-> "", kernel_name |-> ""]
LoadInfos == InfoSet \cup {InfoStar, InfoZero}

\* The mixins a call is made on: as constructed, or configured.
LoadMixins == {FreshMixin} \cup AllConfiguredMixins

NoLoadArgs == [x |-> FreshMixin, info |-> InfoPartial, session |-> FALSE]
NoLoadResult == [op |-> "none", x |-> FreshMixin, info |-> NoCfg @@ [session |-> NoSession]]

LoadIdle ==
    /\ largs = NoLoadArgs
    /\ lres = NoLoadResult


\* x.load_connection_info(info)
LoadCall ==
    /\ lres.op = "none"
    /\ lres' = [lres EXCEPT !.op = "load", !.x = load_connection_info(largs.x, largs.info)]
    /\ UNCHANGED <<cacheVars, fsVars, writeVars, mixinVars, largs, findVars, otherVars>>

\* x.get_connection_info(session)
GetInfoCall ==
    /\ lres.op = "none"
    /\ lres' = [op |-> "get_info",
                x |-> [largs.x EXCEPT !.ip = ReadIp(largs.x)],
                info |-> get_connection_info(largs.x, largs.session)]
    /\ UNCHANGED <<cacheVars, fsVars, writeVars, mixinVars, largs, findVars, otherVars>>

(***************************************************************************)
(* find_connection_file (connect.py:179-231)                               *)
(***************************************************************************)

\* File names and patterns are sequences of characters.
FileNames == {<<"k", "1">>, <<"k", "2">>, <<"x">>}
\* The directory the process runs in, and jupyter_runtime_dir().
Cwd == "/cwd"
RuntimeDir == "/run"
Dirs == {Cwd, RuntimeDir}
\* A file is a directory and a name.
AllFiles == Dirs \X FileNames

\* os.path.abspath of a directory of the search path
AbsDir(d) == IF d = "." THEN Cwd ELSE d

\* fnmatch for patterns of literal characters and "*"
RECURSIVE GlobMatch(_, _)
GlobMatch(pat, name) ==
    IF pat = <<>> THEN name = <<>>
    ELSE IF Head(pat) = "*"
         THEN \/ GlobMatch(Tail(pat), name)
              \/ (name # <<>> /\ GlobMatch(pat, Tail(name)))
         ELSE /\ name # <<>>
              /\ Head(name) = Head(pat)
              /\ GlobMatch(Tail(pat), Tail(name))

\* os.path.isfile
IsFile(at, f) == f \in AllFiles /\ at[f] > 0

\* _filefind(filename, path): the first directory of path that has the file
RECURSIVE filefind(_, _, _)
filefind(at, filename, path) ==
    IF path = <<>> THEN [raised |-> "IOError", found |-> <<>>]
    ELSE IF IsFile(at, <<AbsDir(Head(path)), filename>>)
         THEN [raised |-> "", found |-> <<AbsDir(Head(path)), filename>>]
         ELSE filefind(at, filename, Tail(path))

ExactLookupMut(at, filename, path) == [raised |-> "IOError", found |-> <<>>]
\* `try: return _filefind(filename, path)  except IOError: pass`
ExactLookup(at, filename, path) == filefind(at, filename, path)

GlobPatternMut(filename) == filename
\* `pat = filename if "*" in filename else "*%s*" % filename`
GlobPattern(filename) ==
    IF \E i \in 1..Len(filename) : filename[i] = "*" THEN filename
    ELSE <<"*">> \o filename \o <<"*">>

\* glob.glob(os.path.join(p, pat)) lists the matches in directory p in the order
\* the file system gives them: listing[p] is that order, a sequence of all names.
GlobDir(at, d, pat, order) ==
    SelectSeq([i \in 1..Len(order) |-> <<d, order[i]>>],
              LAMBDA f : IsFile(at, <<AbsDir(f[1]), f[2]>>) /\ GlobMatch(pat, f[2]))

\* The matches collected over the search path, made absolute.
RECURSIVE CollectMatches(_, _, _, _)
CollectMatches(at, path, pat, listing) ==
    IF path = <<>> THEN <<>>
    ELSE LET here == GlobDir(at, Head(path), pat, listing[AbsDir(Head(path))])
         IN  [i \in 1..Len(here) |-> <<AbsDir(here[i][1]), here[i][2]>>]
                \o CollectMatches(at, Tail(path), pat, listing)

\* sorted(matches, key=atime): a stable sort, by insertion
RECURSIVE InsertByAtime(_, _, _)
InsertByAtime(at, sorted, f) ==
    IF sorted = <<>> THEN <<f>>
    ELSE IF at[sorted[Len(sorted)]] <= at[f] THEN Append(sorted, f)
    ELSE Append(InsertByAtime(at, SubSeq(sorted, 1, Len(sorted) - 1), f),
                sorted[Len(sorted)])
RECURSIVE SortedByAtime(_, _)
SortedByAtime(at, matches) ==
    IF matches = <<>> THEN <<>>
    ELSE InsertByAtime(at, SortedByAtime(at, SubSeq(matches, 1, Len(matches) - 1)),
                       matches[Len(matches)])

MostRecentMut(at, matches) == SortedByAtime(at, matches)[1]
\* `sorted(matches, key=lambda f: os.stat(f).st_atime)[-1]`
MostRecent(at, matches) == LET s == SortedByAtime(at, matches) IN s[Len(s)]

NoMatchMut(filename, path) == [raised |-> "", found |-> <<AbsDir(path[1]), filename>>]
\* `raise IOError("Could not find %r in %r" % (filename, path))`
NoMatch(filename, path) == [raised |-> "IOError", found |-> <<>>]

\* find_connection_file(filename, path): what it returns or raises, whether it
\* went on to the glob, and the matches it collected.
find_connection_file(at, filename, path, listing) ==
    LET exact == ExactLookup(at, filename, path)
        matches == CollectMatches(at, path, GlobPattern(filename), listing)
    IN  IF exact.raised = ""
        THEN [raised |-> "", found |-> exact.found, globbed |-> FALSE, matches |-> <<>>]
        ELSE IF matches = <<>>
             THEN NoMatch(filename, path) @@ [globbed |-> TRUE, matches |-> matches]
        ELSE IF Len(matches) = 1
             THEN [raised |-> "", found |-> matches[1], globbed |-> TRUE,
                   matches |-> matches]
        ELSE [raised |-> "", found |-> MostRecent(at, matches), globbed |-> TRUE,
              matches |-> matches]

\* The orders a directory may list its names in.
Listings ==
    {o \in [1..Cardinality(FileNames) -> FileNames] :
        \A i, j \in 1..Cardinality(FileNames) : i # j => o[i] # o[j]}

\* The names and patterns asked for: a name, a pattern, a part of a name, a name
\* nothing has, everything.
FindNames == {<<"k", "1">>, <<"k", "*">>, <<"k">>, <<"z">>, <<"*">>}
\* The search paths: the default, the runtime directory alone, the two swapped.
FindPaths == {<<".", RuntimeDir>>, <<RuntimeDir>>, <<RuntimeDir, ".">>}

NoFindResult ==
    [op |-> "none", raised |-> "", found |-> <<>>, globbed |-> FALSE, matches |-> <<>>,
     touched |-> <<>>]

FindIdle ==
    /\ fatime = [f \in AllFiles |-> 0]
    /\ fargs = [filename |-> <<"z">>, path |-> <<RuntimeDir>>]
    /\ fres = NoFindResult

\* find_connection_file(filename, path); the directories list their names in
\* some order, the same in both
FindFileCall ==
    /\ \E o \in Listings :
          fres' = find_connection_file(fatime, fargs.filename, fargs.path,
                                       [d \in Dirs |-> o])
                     @@ [op |-> "find",
                         touched |-> IF fres.op = "touch" THEN fres.touched ELSE <<>>]
    /\ UNCHANGED <<cacheVars, fsVars, writeVars, mixinVars, loadVars, fatime, fargs, otherVars>>

\* Somebody reads a file: its access time becomes the latest of all.
TouchFile ==
    /\ \E f \in {g \in AllFiles : fatime[g] > 0} :
          LET latest == CHOOSE t \in 0..MaxAtime : \A g \in AllFiles : fatime[g] <= t
                                                  /\ \E h \in AllFiles : fatime[h] = t
          IN  /\ latest < MaxAtime
              /\ fatime' = [fatime EXCEPT ![f] = latest + 1]
              /\ fres' = [NoFindResult EXCEPT !.op = "touch", !.touched = f]
    /\ UNCHANGED <<cacheVars, fsVars, writeVars, mixinVars, loadVars, fargs, otherVars>>

(***************************************************************************)
(* KernelProvisionerFactory (provisioning/factory.py)                      *)
(***************************************************************************)

\* The name _get_provisioner recovers, and one more provisioner name.
LocalProvisionerName == "local-provisioner"
ProvisionerNames == {LocalProvisionerName, "remote-provisioner"}

\* The distributions that may advertise an entry point of the group; a name no
\* distribution advertises has "none".
Distributions == {"dist-1", "dist-2"}
NoDistribution == "none"

\* EntryPoint(name, module_name, object_name) as distribution d advertises it
EntryPointOf(name, d) ==
    [name |-> name,
     module_name |-> IF name = LocalProvisionerName THEN "jupyter_client.provisioning"
                     ELSE "remote_provisioners",
     object_name |-> IF name = LocalProvisionerName THEN "LocalProvisioner"
                     ELSE "RemoteProvisioner",
     distro |-> d]

\* EntryPoint('local-provisioner', 'jupyter_client.provisioning', 'LocalProvisioner')
BuiltInEntryPoint == EntryPointOf(LocalProvisionerName, NoDistribution)

\* _get_all_provisioners(): every entry point of the group
get_all_provisioners(eps) ==
    {EntryPointOf(n, eps[n]) : n \in {k \in ProvisionerNames : eps[k] # NoDistribution}}

\* entrypoints.get_single(GROUP_NAME, name)
get_single(eps, name) ==
    IF name \in DOMAIN eps /\ eps[name] # NoDistribution
    THEN [raised |-> "", ep |-> EntryPointOf(name, eps[name])]
    ELSE [raised |-> "NoSuchEntryPoint", ep |-> BuiltInEntryPoint]

RecoversMut(name) == FALSE
RecoversAnyMut(name) == TRUE
\* `if name != 'local-provisioner': raise`
Recovers(name) == name = LocalProvisionerName

\* _get_provisioner(name): the entry point, or NoSuchEntryPoint; the built-in one
\* is constructed, with a warning, when the lookup does not find it
get_provisioner(eps, name) ==
    LET found == get_single(eps, name) IN
    IF found.raised = "" THEN [raised |-> "", ep |-> found.ep, warned |-> {}]
    ELSE IF ~Recovers(name) THEN [raised |-> "NoSuchEntryPoint", ep |-> found.ep, warned |-> {}]
    ELSE [raised |-> "", ep |-> BuiltInEntryPoint, warned |-> {"local-provisioner not found"}]

InCacheMut(provs, name) == FALSE
\* `provisioner_name not in self.provisioners`, negated
InCache(provs, name) == name \in DOMAIN provs

UpdateCacheMut(provs, name, ep) == (name :> ep)
\* `self.provisioners[provisioner_name] = ep`
UpdateCache(provs, name, ep) == (name :> ep) @@ provs

\* _check_availability(provisioner_name): whether it is available, the registry
\* afterwards, whether the entry point was looked up
check_availability(provs, eps, name) ==
    IF InCache(provs, name)
    THEN [is_available |-> TRUE, provisioners |-> provs, looked_up |-> FALSE, warned |-> {}]
    ELSE LET got == get_provisioner(eps, name) IN
         IF got.raised = ""
         THEN [is_available |-> TRUE, provisioners |-> UpdateCache(provs, name, got.ep),
               looked_up |-> TRUE, warned |-> got.warned]
         ELSE [is_available |-> FALSE, provisioners |-> provs, looked_up |-> TRUE,
               warned |-> got.warned]

\* The options of a provisioner, as a set of <<name, value>> pairs.
NoOptions == {}
SomeOptions == {<<"launch_timeout", 30>>}

\* kernel_spec.metadata: whether it has a kernel_provisioner stanza, the keys of
\* the stanza and their values
NoStanza == [present |-> FALSE, keys |-> {}, provisioner_name |-> "", config |-> NoOptions]
Stanza(keys, name, config) ==
    [present |-> TRUE, keys |-> keys,
     provisioner_name |-> IF "provisioner_name" \in keys THEN name ELSE "",
     config |-> IF "config" \in keys THEN config ELSE NoOptions]

\* The kernel specifications: without a stanza, with a stanza that has options
\* and no name, naming a provisioner without options (next to an entry the
\* factory does not read), naming one with options.
KernelSpecs == {"bare", "unnamed", "local", "remote"}
InitialMetadata ==
    [s \in KernelSpecs |->
        CASE s = "bare" -> NoStanza
          [] s = "unnamed" -> Stanza({"config"}, "", SomeOptions)
          [] s = "local" -> Stanza({"provisioner_name", "comment"}, LocalProvisionerName,
                                   NoOptions)
          [] s = "remote" -> Stanza({"provisioner_name", "config"}, "remote-provisioner",
                                    SomeOptions)]

DefaultConfigMut(stanza, default) == [provisioner_name |-> default, config |-> stanza.config]
\* `return {"provisioner_name": self.default_provisioner_name, "config": {}}`
DefaultConfig(stanza, default) == [provisioner_name |-> default, config |-> NoOptions]

AddConfigMut(stanza) == stanza
\* `if 'config' not in env_provisioner: env_provisioner.update({"config": {}})`;
\* a stanza without config holds NoOptions there, which becomes its entry
AddConfig(stanza) == [stanza EXCEPT !.keys = @ \cup {"config"}]

\* _get_provisioner_config(kernel_spec): the stanza it returns, and the stanza of
\* the kernel spec afterwards (a missing config is added in place)
get_provisioner_config(stanza, default) ==
    IF "provisioner_name" \in stanza.keys
    THEN LET filled == AddConfig(stanza) IN
         [cfg |-> [provisioner_name |-> filled.provisioner_name, config |-> filled.config],
          stanza |-> filled]
    ELSE [cfg |-> DefaultConfig(stanza, default), stanza |-> stanza]

KernelIds == {"k1", "k2"}
Parents == {"km"}
NoInstance == [class |-> <<>>, kernel_id |-> "", kernel_spec |-> "", parent |-> "",
               options |-> NoOptions]

\* EntryPoint.load(): the class the entry point refers to
load(ep) == <<ep.module_name, ep.object_name>>

\* provisioner_class(kernel_id=..., kernel_spec=..., parent=..., **provisioner_config)
Construct(ep, kernel_id, kernel_spec, parent, config) ==
    [class |-> load(ep), kernel_id |-> kernel_id, kernel_spec |-> kernel_spec,
     parent |-> parent, options |-> config]

\* The last call on the factory and its outcome: the name and options it derived,
\* what it returned or raised, the warnings it logged, whether the name was in
\* the registry and advertised when it was made, the registry before it, and the
\* names earlier calls have failed to resolve.
NoFactoryCall ==
    [op |-> "none", kernel_spec |-> "", kernel_id |-> "", parent |-> "", name |-> "",
     config |-> NoOptions, returned |-> FALSE, raised |-> "", warned |-> {},
     looked_up |-> FALSE, registered |-> FALSE, resolvable |-> FALSE,
     instance |-> NoInstance, before |-> <<>>, failed |-> {}]

FactoryStep == pcalls < MaxFactoryOps /\ pcalls' = pcalls + 1

AvailableNameMut(cfg) == LocalProvisionerName
\* `provisioner_name = str(provisioner_cfg.get('provisioner_name'))` of
\* is_provisioner_available
AvailableName(cfg) == cfg.provisioner_name

CreateNameMut(cfg) == LocalProvisionerName
\* `provisioner_name = str(provisioner_cfg.get('provisioner_name'))` of
\* create_provisioner_instance
CreateName(cfg) == cfg.provisioner_name

\* is_provisioner_available(kernel_spec) with the registry provs, the entry
\* points eps, the stanza of the kernel spec and the default name: what it
\* returns and logs, the stanza and the registry afterwards
is_provisioner_available(provs, eps, stanza, default) ==
    LET got == get_provisioner_config(stanza, default)
        provisioner_name == AvailableName(got.cfg)
        chk == check_availability(provs, eps, provisioner_name)
    IN  [name |-> provisioner_name, config |-> got.cfg.config, stanza |-> got.stanza,
         returned |-> chk.is_available, raised |-> "",
         warned |-> chk.warned \cup (IF chk.is_available THEN {} ELSE {"not available"}),
         looked_up |-> chk.looked_up, provisioners |-> chk.provisioners,
         instance |-> NoInstance]

\* create_provisioner_instance(kernel_id, kernel_spec, parent), likewise: what
\* it raises or the instance it returns
create_provisioner_instance(provs, eps, stanza, default, kernel_id, s, parent) ==
    LET got == get_provisioner_config(stanza, default)
        provisioner_name == CreateName(got.cfg)
        chk == check_availability(provs, eps, provisioner_name)
    IN  [name |-> provisioner_name, config |-> got.cfg.config, stanza |-> got.stanza,
         returned |-> chk.is_available,
         raised |-> IF chk.is_available THEN "" ELSE "ModuleNotFoundError",
         warned |-> chk.warned,
         looked_up |-> chk.looked_up, provisioners |-> chk.provisioners,
         instance |-> IF chk.is_available
                      THEN Construct(chk.provisioners[provisioner_name],
                                     kernel_id, s, parent, got.cfg.config)
                      ELSE NoInstance]

\* The record of a call with outcome r.
FactoryCallRecord(op, s, kernel_id, parent, r) ==
    [NoFactoryCall EXCEPT
        !.op = op, !.kernel_spec = s, !.kernel_id = kernel_id, !.parent = parent,
        !.name = r.name, !.config = r.config, !.returned = r.returned,
        !.raised = r.raised, !.warned = r.warned, !.looked_up = r.looked_up,
        !.registered = r.name \in DOMAIN provisioners,
        !.resolvable = entry_points[r.name] # NoDistribution,
        !.before = provisioners,
        !.failed = pcall.failed \cup (IF r.returned THEN {} ELSE {r.name}),
        !.instance = r.instance]

\* A call of is_provisioner_available(kernel_spec)
IsProvisionerAvailable(s) ==
    LET r == is_provisioner_available(provisioners, entry_points, metadata[s],
                                      default_provisioner_name)
    IN  /\ FactoryStep
        /\ metadata' = [metadata EXCEPT ![s] = r.stanza]
        /\ provisioners' = r.provisioners
        /\ pcall' = FactoryCallRecord("is_provisioner_available", s, "", "", r)
        /\ UNCHANGED <<entry_points, default_provisioner_name, notFactory>>

\* A call of create_provisioner_instance(kernel_id, kernel_spec, parent)
CreateProvisionerInstance(kernel_id, s, parent) ==
    LET r == create_provisioner_instance(provisioners, entry_points, metadata[s],
                                         default_provisioner_name, kernel_id, s, parent)
    IN  /\ FactoryStep
        /\ metadata' = [metadata EXCEPT ![s] = r.stanza]
        /\ provisioners' = r.provisioners
        /\ pcall' = FactoryCallRecord("create_provisioner_instance", s, kernel_id,
                                      parent, r)
        /\ UNCHANGED <<entry_points, default_provisioner_name, notFactory>>

\* A distribution that advertises the name is installed, or the one that does
\* is removed.
InstallDistribution(n, d) ==
    /\ FactoryStep
    /\ entry_points[n] # d
    /\ entry_points' = [entry_points EXCEPT ![n] = d]
    /\ pcall' = [NoFactoryCall EXCEPT !.op = "install", !.name = n,
                                       !.before = provisioners, !.failed = pcall.failed]
    /\ UNCHANGED <<provisioners, metadata, default_provisioner_name, notFactory>>

FactoryIdle ==
    /\ provisioners = <<>>
    /\ entry_points = [n \in ProvisionerNames |-> NoDistribution]
    /\ metadata = InitialMetadata
    /\ default_provisioner_name = LocalProvisionerName
    /\ pcall = NoFactoryCall
    /\ pcalls = 0

(***************************************************************************)
(* tunnel_to_kernel (connect.py:234-292)                                   *)
(***************************************************************************)

\* The local ports select_random_ports may pick.
TunnelPorts == 1..TunnelPoolSize

\* The number of tunnels: `tunnel.select_random_ports(5)`
NumTunnels == 5

\* tunnel.select_random_ports(n): n local ports, no two the same
select_random_ports(n) ==
    {s \in [1..n -> TunnelPorts] : \A i, j \in 1..n : i # j => s[i] # s[j]}

RemoteChannelsMut == ChannelOrder
\* the channels of rports, in the order of the tuple
RemoteChannels == <<"shell_port", "iopub_port", "stdin_port", "hb_port", "control_port">>

\* rports: the ports of cf in that order
rports(cf) == [i \in 1..Len(RemoteChannels) |-> cf.ports[RemoteChannels[i]]]

\* tunnel.ssh_tunnel(lp, rp, sshserver, remote_ip, sshkey, password)
ssh_tunnel(lp, rp, sshserver, remote_ip, sshkey, password) ==
    [lport |-> lp, rport |-> rp, server |-> sshserver, remoteip |-> remote_ip,
     keyfile |-> sshkey, password |-> password]

ZipPairMut(lports, rps, i) == <<lports[i], rps[1]>>
\* the i-th pair of zip(lports, rports)
ZipPair(lports, rps, i) == <<lports[i], rps[i]>>

ReturnedPortsMut(lports) == [lports EXCEPT ![Len(lports)] = lports[1]]
\* `return tuple(lports)`
ReturnedPorts(lports) == lports

\* password: False when passwordless ssh works, else what getpass returns
PasswordFor(passwordless) == IF passwordless THEN "False" ELSE "typed-password"

\* The connection info behind the argument: the dict itself, or the JSON of the
\* file at the path.
TunnelInfo(a) == IF a.is_path THEN a.file ELSE a.connection_info

\* The tunnels the loop opens when ssh_tunnel fails at call number `failing`
\* (0: none fails): the ones before the failing call.
OpenedTunnels(a, lports, failing) ==
    LET cf == TunnelInfo(a)
        n == IF failing = 0 THEN Len(lports) ELSE failing - 1
    IN  [i \in 1..n |->
            LET p == ZipPair(lports, rports(cf), i)
            IN  ssh_tunnel(p[1], p[2], a.sshserver, cf.ip, a.sshkey,
                           PasswordFor(a.passwordless))]

\* The remote ports of the kernel: all different, or the heartbeat and control
\* channels on swapped numbers.
TunnelInfos ==
    {[ip |-> ip, ports |-> ps] :
        ip \in {"127.0.0.1", "10.0.0.5"},
        ps \in {[n \in PortNames |-> 50 + ChannelIndex(n)],
                [n \in PortNames |-> 60 - ChannelIndex(n)]}}

NoTunnelInfo == [ip |-> "", ports |-> NoPorts]

TunnelInputs ==
    {[connection_info |-> IF p THEN NoTunnelInfo ELSE cf,
      is_path |-> p,
      file |-> IF p THEN cf ELSE NoTunnelInfo,
      sshserver |-> "user@server",
      sshkey |-> k,
      passwordless |-> pl] :
        cf \in TunnelInfos, p \in BOOLEAN, k \in {"", "id_rsa"}, pl \in BOOLEAN}

NoTunnelResult ==
    [op |-> "none", raised |-> FALSE, lports |-> <<>>, tunnels |-> <<>>, returned |-> <<>>]

\* tunnel_to_kernel(connection_info, sshserver, sshkey); any of the ssh_tunnel
\* calls may fail, which ends the call
TunnelToKernel ==
    /\ tres.op = "none"
    /\ \E lports \in select_random_ports(NumTunnels), failing \in 0..NumTunnels :
          tres' = [op |-> "tunnel_to_kernel",
                   raised |-> failing # 0,
                   lports |-> lports,
                   tunnels |-> OpenedTunnels(targs, lports, failing),
                   returned |-> IF failing = 0 THEN ReturnedPorts(lports) ELSE <<>>]
    /\ UNCHANGED <<targs, notTunnel>>

TunnelIdle ==
    /\ targs = [connection_info |-> NoTunnelInfo, is_path |-> FALSE, file |-> NoTunnelInfo,
                sshserver |-> "", sshkey |-> "", passwordless |-> TRUE]
    /\ tres = NoTunnelResult

OtherIdle == FactoryIdle /\ TunnelIdle

PureIdle == LoadIdle /\ FindIdle /\ OtherIdle

(***************************************************************************)
(* Initial states and specifications                                       *)
(***************************************************************************)

CacheVarsInit(who) ==
    /\ currently_used_ports = {}
    /\ callers = who
    /\ pc = [t \in Threads |-> "idle"]
    /\ tmp_sock = [t \in Threads |-> NoPort]
    /\ port = [t \in Threads |-> NoPort]
    /\ holding = [t \in Threads |-> {}]
    /\ log = <<>>
    /\ released = {}
    /\ last = NoCall

CacheInit(who) ==
    /\ CacheVarsInit(who)
    /\ FsInit
    /\ WriteIdle
    /\ MixinIdle
    /\ PureIdle

\* The arguments of the call are drawn; ipc socket paths exist only where the
\* ipc branch looks for them.
WriteInit ==
    /\ CacheVarsInit({})
    /\ files = [p \in Paths |-> AbsentFile]
    /\ wargs \in WriteInputs
    /\ ipcfiles \in (IF wargs.transport = "ipc"
                        THEN {{}, {<<DefaultIp(wargs.ip), 1>>}, {<<DefaultIp(wargs.ip), 2>>}}
                        ELSE {{}})
    /\ wres = NoResult
    /\ MixinIdle
    /\ PureIdle

SpecWrite == WriteInit /\ [][WriteCall]_vars

\* Mixin A is configured; mixin B is fresh and points at the connection file A
\* was given (a client of A's kernel). No file exists yet.
MixinInit ==
    /\ CacheVarsInit({})
    /\ FsInit
    /\ WriteIdle
    /\ mixin \in {[m \in Mixins |->
                       IF m = "A" THEN a
                       ELSE [FreshMixin EXCEPT !.connection_file = a.connection_file]] :
                    a \in ConfiguredMixins}
    /\ mlast = NoMixinCall
    /\ mops = 0
    /\ PureIdle

SpecMixin == MixinInit /\ [][MixinNext]_vars

\* The mixin, the info and the session flag of the call are drawn.
LoadInit ==
    /\ CacheVarsInit({})
    /\ FsInit
    /\ WriteIdle
    /\ MixinIdle
    /\ largs \in [x : LoadMixins, info : LoadInfos, session : BOOLEAN]
    /\ lres = NoLoadResult
    /\ FindIdle
    /\ OtherIdle

\* Each file is there or not, all with the same access time; the arguments of the
\* call are drawn.
FindInit ==
    /\ CacheVarsInit({})
    /\ FsInit
    /\ WriteIdle
    /\ MixinIdle
    /\ LoadIdle
    /\ fatime \in [AllFiles -> {0, 1}]
    /\ fargs \in [filename : FindNames, path : FindPaths]
    /\ fres = NoFindResult
    /\ OtherIdle

FindNext == FindFileCall \/ TouchFile
SpecFind == FindInit /\ [][FindNext]_vars

\* The factory has been constructed: the registry holds every entry point the
\* installed distributions advertise. The default name is the built-in one or
\* the one the environment variable gives.
FactoryInit ==
    /\ CacheVarsInit({})
    /\ FsInit
    /\ WriteIdle
    /\ MixinIdle
    /\ LoadIdle
    /\ FindIdle
    /\ TunnelIdle
    /\ entry_points \in [ProvisionerNames -> {NoDistribution, "dist-1"}]
    /\ provisioners = [n \in {ep.name : ep \in get_all_provisioners(entry_points)} |->
                          EntryPointOf(n, entry_points[n])]
    /\ metadata = InitialMetadata
    /\ default_provisioner_name \in ProvisionerNames
    /\ pcall = NoFactoryCall
    /\ pcalls = 0

FactoryNext ==
    \/ \E s \in KernelSpecs : IsProvisionerAvailable(s)
    \/ \E k \in KernelIds, s \in KernelSpecs, p \in Parents : CreateProvisionerInstance(k, s, p)
    \/ \E n \in ProvisionerNames, d \in Distributions \cup {NoDistribution} :
          InstallDistribution(n, d)

SpecFactory == FactoryInit /\ [][FactoryNext]_vars

\* The arguments of the call are drawn.
TunnelInit ==
    /\ CacheVarsInit({})
    /\ FsInit
    /\ WriteIdle
    /\ MixinIdle
    /\ LoadIdle
    /\ FindIdle
    /\ FactoryIdle
    /\ targs \in TunnelInputs
    /\ tres = NoTunnelResult

SpecTunnel == TunnelInit /\ [][TunnelToKernel]_vars

LoadNext == LoadCall \/ GetInfoCall
SpecLoad == LoadInit /\ [][LoadNext]_vars

CacheNext ==
    \E t \in Threads :
        \/ FindCall(t)
        \/ FindBind(t)
        \/ FindClose(t)
        \/ FindCheck(t)
        \/ FindAdd(t)
        \/ ReturnCall(t)
        \/ ReturnCheck(t)
        \/ ReturnRemove(t)

\* One caller: the calls of the cache follow one another.
SeqInit == CacheInit({1})
SpecSeq == SeqInit /\ [][CacheNext]_vars

\* Several threads call into the singleton at once.
ThreadsInit == CacheInit(Threads)
SpecThreads == ThreadsInit /\ [][CacheNext]_vars

\* The steps of find_available_port once it is entered.
FindStep(t) == FindBind(t) \/ FindClose(t) \/ FindCheck(t) \/ FindAdd(t)

\* One caller, and a call that has been entered keeps running: no step of
\* find_available_port waits for anything.
SpecSeqFair == SeqInit /\ [][CacheNext]_vars /\ \A t \in Threads : WF_vars(FindStep(t))

(***************************************************************************)
(* Claims about LocalPortCache                                             *)
(***************************************************************************)

\* C1: the ports find_available_port returned one call after another, with no
\* return_port in between, are pairwise distinct, whatever the OS handed back.
C1_BackToBackDistinct ==
    \A i, j \in 1..Len(log) : i # j => log[i] # log[j]

\* Two ports were returned and the OS has just handed back a claimed one.
C1_Witness ==
    /\ Len(log) >= 2
    /\ pc[1] = "check"
    /\ port[1] \in currently_used_ports

\* C2: under every interleaving of the threads, no two callers that both still
\* hold their port were given the same port number.
C2_NoSharedPort ==
    \A t, u \in callers : t # u => holding[t] \cap holding[u] = {}

\* C3: after return_port(p) of a claimed port p, p is not in the claimed set, and
\* a later find_available_port whose allocation yields p returns p, not skipping it.
C3_ReturnedPortReusable ==
    /\ [](/\ released \cap currently_used_ports = {}
          /\ (last.op = "return" /\ last.port \in last.before)
                => (last.port \notin currently_used_ports /\ last.port \in released))
    /\ [][\A t \in callers :
            /\ (pc[t] = "check" /\ port[t] \in released) => pc'[t] \in {"check", "add"}
            /\ (pc[t] = "add" /\ pc'[t] = "idle")
                  => (last'.op = "find" /\ last'.port = port[t]
                      /\ port[t] \in currently_used_ports')]_vars

\* The OS has handed back a port that was given back, and the check let it pass.
C3_Witness ==
    /\ pc[1] = "add"
    /\ port[1] \in released
    /\ last.op = "return"
    /\ last.port = port[1]

\* C4: return_port(p) for a port p that is not in the claimed set raises no error
\* and leaves the claimed set exactly as it was.
C4_ReturnAbsentIsNoOp ==
    (last.op = "return" /\ last.port \notin last.before)
        => (~last.raised /\ currently_used_ports = last.before)

\* return_port of an unclaimed port has completed while other ports are claimed.
C4_Witness ==
    /\ last.op = "return"
    /\ last.port \notin last.before
    /\ last.before # {}
    /\ pc[1] = "idle"

(***************************************************************************)
(* Claims about write_connection_file                                      *)
(***************************************************************************)

PairwiseDistinct(p) == \A n, k \in PortNames : n # k => p[n] # p[k]
AllPositive(p) == \A n \in PortNames : p[n] > 0
Configured(p) == {n \in PortNames : p[n] > 0}

\* C5: for tcp, after write_connection_file returns, the five ports are positive
\* and no two are equal, whatever ports were configured and whatever the OS chose
\* (stated for arguments whose configured ports differ from one another).
C5_PortsNeverCollide ==
    (/\ wres.raised = ""
     /\ wargs.transport = "tcp"
     /\ \A n, k \in Configured(wargs.ports) : n # k => wargs.ports[n] # wargs.ports[k])
        => (AllPositive(wres.cfg.ports) /\ PairwiseDistinct(wres.cfg.ports))

\* C6: tcp, all five ports unset, no ip and no key: the call returns five distinct
\* positive ports, the loopback address and the empty key.
C6_DefaultCall ==
    (/\ wres.raised # "none"
     /\ wargs.transport = "tcp"
     /\ \A n \in PortNames : wargs.ports[n] <= 0
     /\ wargs.ip = ""
     /\ wargs.key = <<>>)
        => (/\ wres.raised = ""
            /\ AllPositive(wres.cfg.ports)
            /\ PairwiseDistinct(wres.cfg.ports)
            /\ wres.cfg.ip = localhost
            /\ wres.cfg.key = TextKey(<<>>)
            /\ files[wres.fname] = JsonFile(wres.cfg))

\* The default call has returned, with some negative and some zero arguments.
C6_Witness ==
    /\ wres.raised = ""
    /\ wargs.transport = "tcp"
    /\ \A n \in PortNames : wargs.ports[n] <= 0
    /\ wargs.ports["shell_port"] = 0
    /\ wargs.ports["hb_port"] = -1
    /\ wargs.ip = ""
    /\ wargs.key = <<>>
    /\ wargs.fname = ""

(***************************************************************************)
(* Claims about ConnectionFileMixin                                        *)
(***************************************************************************)

\* The step is a call of op by mixin m.
IsCall(op, m) == mlast'.op = op /\ mlast'.m = m /\ mops' = mops + 1

\* C8: when mixin m has written its file and the file still exists, a call of
\* m.write_connection_file() writes nothing and changes no attribute of any
\* mixin, no file and no ipc path.
C8_SecondWriteIsNoOp ==
    [][\A m \in Mixins :
          (/\ IsCall("write", m)
           /\ mixin[m].written
           /\ PathExists(files, mixin[m].connection_file))
              => (/\ mixin' = mixin
                  /\ files' = files
                  /\ ipcfiles' = ipcfiles
                  /\ ~mlast'.wrote
                  /\ mlast'.raised = "")]_vars

\* A second write has returned at once: the file written by the first is there.
C8_Witness ==
    /\ mlast.op = "write"
    /\ mlast.noop
    /\ mops >= 2
    /\ mixin[mlast.m].written
    /\ files[mixin[mlast.m].connection_file].state = "json"
    /\ mixin[mlast.m].random.names # {}

\* C9: m.cleanup_connection_file() never raises and leaves m's flag clear; with
\* the flag set it removes m's connection file and nothing else; with the flag
\* clear it changes nothing at all (so a second cleanup in a row is a no-op).
\* The flag of m becomes set only in m's own write.
C9_CleanupOnlyOwnFile ==
    [][\A m \in Mixins :
          /\ IsCall("cleanup", m)
                => (/\ ~mixin'[m].written
                    /\ mlast'.raised = ""
                    /\ \A k \in Mixins \ {m} : mixin'[k] = mixin[k]
                    /\ ipcfiles' = ipcfiles
                    /\ mixin[m].written
                          => (/\ ~PathExists(files', mixin[m].connection_file)
                              /\ \A p \in Paths \ {mixin[m].connection_file} :
                                    files'[p] = files[p])
                    /\ ~mixin[m].written => (mixin' = mixin /\ files' = files))
          /\ (mixin'[m].written /\ ~mixin[m].written)
                => (/\ mlast'.m = m
                    /\ mlast'.op \in {"write", "force"}
                    /\ mlast'.wrote)]_vars

\* cleanup_connection_file has returned for a mixin that did not write the file
\* its connection_file names: the file is still there.
C9_Witness ==
    /\ mlast.op = "cleanup"
    /\ mlast.noop
    /\ ~mlast.removed
    /\ PathExists(files, mixin[mlast.m].connection_file)
    /\ \E k \in Mixins \ {mlast.m} :
          mixin[k].written /\ mixin[k].connection_file = mixin[mlast.m].connection_file

\* The attributes of x are the entries of cfg; the bytes of the key are the
\* encoding of the text in the file.
SameAsFile(x, cfg, fields) ==
    /\ "transport" \in fields => x.transport = cfg.transport
    /\ "ip" \in fields => x.ip = cfg.ip
    /\ \A n \in PortNames \cap fields : x.ports[n] = cfg.ports[n]
    /\ "key" \in fields => (cfg.key.kind = "str" /\ x.key = utf8_encode(cfg.key.val))
    /\ "signature_scheme" \in fields => x.signature_scheme = cfg.signature_scheme
    /\ "kernel_name" \in fields => x.kernel_name = cfg.kernel_name

\* A mixin as constructed: no port set, nothing overridden, nothing written or
\* loaded so far.
IsFreshMixin(x) == x = [FreshMixin EXCEPT !.connection_file = x.connection_file]

\* C10: round trip. The file a mixin writes holds the value of each of its
\* fields (transport, ip, the five ports, key, signature_scheme, kernel_name),
\* and a fresh mixin that loads a connection file has in each of these fields
\* the value in the file.
C10_RoundTrip ==
    [][\A m \in Mixins :
          /\ (IsCall("write", m) /\ mlast'.wrote)
                => SameAsFile(mixin'[m], files'[mixin'[m].connection_file].cfg, AllKeys)
          /\ (IsCall("load_file", m) /\ mlast'.raised = "" /\ IsFreshMixin(mixin[m]))
                => SameAsFile(mixin'[m], files[mlast'.path].cfg, AllKeys)]_vars

(***************************************************************************)
(* Claims about load_connection_info and get_connection_info               *)
(***************************************************************************)

\* C11: load_connection_info overwrites a port only if the port is unset (0)
\* and the info names it; every port configured before the load (positive)
\* keeps its value whatever the info contains.
C11_ConfiguredPortsWin ==
    lres.op = "load"
        => \A n \in PortNames :
              /\ lres.x.ports[n] # largs.x.ports[n]
                    => (/\ largs.x.ports[n] = NoPort
                        /\ n \in largs.info.keys
                        /\ lres.x.ports[n] = largs.info.ports[n])
              /\ largs.x.ports[n] > 0 => lres.x.ports[n] = largs.x.ports[n]

\* A load has kept a configured port the info gives another value for, and has
\* taken an unset port from the info.
C11_Witness ==
    /\ lres.op = "load"
    /\ \E n \in PortNames \cap largs.info.keys :
          /\ largs.x.ports[n] > 0
          /\ largs.info.ports[n] # largs.x.ports[n]
          /\ lres.x.ports[n] = largs.x.ports[n]
    /\ \E n \in PortNames \cap largs.info.keys :
          /\ largs.x.ports[n] = NoPort
          /\ lres.x.ports[n] = largs.info.ports[n]
          /\ lres.x.ports[n] > 0

\* C12: load_connection_info sets transport and signature_scheme to the values
\* of the info whenever the info has them, whatever they were, and stores a
\* textual key as its bytes; without a key or a signature_scheme in the info the
\* session's key or signature_scheme stays as it was.
C12_SessionFieldsLoaded ==
    lres.op = "load"
        => /\ "transport" \in largs.info.keys => lres.x.transport = largs.info.transport
           /\ "signature_scheme" \in largs.info.keys
                 => lres.x.signature_scheme = largs.info.signature_scheme
           /\ ("key" \in largs.info.keys /\ largs.info.key.kind = "str")
                 => (/\ utf8_decode(lres.x.key).ok
                     /\ utf8_decode(lres.x.key).text = largs.info.key.val)
           /\ "key" \notin largs.info.keys => lres.x.key = largs.x.key
           /\ "signature_scheme" \notin largs.info.keys
                 => lres.x.signature_scheme = largs.x.signature_scheme

\* A load has replaced the transport, the scheme and the key of a configured
\* mixin by those of the info, the key being text that is not ASCII.
C12_Witness ==
    /\ lres.op = "load"
    /\ {"transport", "signature_scheme", "key"} \subseteq largs.info.keys
    /\ largs.info.transport # largs.x.transport
    /\ largs.info.signature_scheme # largs.x.signature_scheme
    /\ largs.info.key.kind = "str"
    /\ \E i \in 1..Len(largs.info.key.val) : largs.info.key.val[i] > 127
    /\ lres.x.key # largs.x.key
    /\ lres.x.transport = largs.info.transport

\* The ports info names are those of mixin x and of the file x has written.
ForcedPorts(x, fs, info, names) ==
    /\ x.written
    /\ PathExists(fs, x.connection_file)
    /\ fs[x.connection_file].state = "json"
    /\ \A n \in names :
          /\ x.ports[n] = info.ports[n]
          /\ fs[x.connection_file].cfg.ports[n] = info.ports[n]

RandomPortsCleaned(m, names) ==
    /\ \A n \in PortNames :
          mixin'[m].ports[n] = IF n \in names THEN NoPort ELSE mixin[m].ports[n]
    /\ ~mixin'[m].written
    /\ mixin[m].written => ~PathExists(files', mixin[m].connection_file)
    /\ \A p \in Paths \ {mixin[m].connection_file} : files'[p] = files[p]
    /\ mixin'[m].random = mixin[m].random

\* C14 as claimed: cleanup_random_ports resets exactly the ports recorded as
\* random, leaves the other ports as they are and deletes the connection file
\* the instance wrote.
C14_CleanupRandomAlways ==
    [][\A m \in Mixins :
          IsCall("cleanup_random", m) => RandomPortsCleaned(m, mixin[m].random.names)]_vars

\* C14 as it holds: with at least one port recorded as random,
\* cleanup_random_ports resets exactly the recorded ports, leaves the others,
\* clears the flag and deletes the file the instance wrote; with none recorded
\* it changes nothing. The write that follows a cleanup that acted writes the
\* file again and gives new positive values to exactly the ports that were
\* reset.
C14_CleanupRandomResets ==
    [][\A m \in Mixins :
          /\ IsCall("cleanup_random", m)
                => IF mixin[m].random.names # {}
                      THEN RandomPortsCleaned(m, mixin[m].random.names)
                      ELSE mixin' = mixin /\ files' = files
          /\ (/\ IsCall("write", m)
              /\ mlast.op = "cleanup_random" /\ mlast.m = m /\ ~mlast.noop
              /\ mlast'.raised = "")
                => (/\ mlast'.wrote
                    /\ mixin'[m].written
                    /\ files'[mixin'[m].connection_file].state = "json"
                    /\ \A n \in PortNames :
                          IF n \in mixin[m].random.names
                             THEN mixin[m].ports[n] = NoPort /\ mixin'[m].ports[n] > 0
                             ELSE mixin'[m].ports[n] = mixin[m].ports[n])]_vars

\* cleanup_random_ports has acted on a mixin that wrote its file with two
\* configured ports and three allocated ones: the file is gone, the three are
\* unset, the two are kept.
C14_Witness ==
    /\ mlast.op = "cleanup_random"
    /\ ~mlast.noop
    /\ mlast.removed
    /\ mixin[mlast.m].random.names = {"shell_port", "iopub_port", "stdin_port"}
    /\ \A n \in PortNames :
          mixin[mlast.m].ports[n] = IF n \in mixin[mlast.m].random.names
                                       THEN NoPort ELSE ConfiguredPort(n)
    /\ ~mixin[mlast.m].written

\* C15: once the random-port record of a mixin has been computed, no operation
\* (write, load, force, cleanup_connection_file, cleanup_random_ports) changes
\* it.
C15_RecordIsFinal ==
    [][\A m \in Mixins :
          mixin[m].random.recorded => mixin'[m].random = mixin[m].random]_vars

\* A mixin that recorded random ports at its write has loaded info since: its
\* ports are all set now, and the record still names the ports of the write.
C15_Witness ==
    /\ mlast.op \in {"load_info", "force"}
    /\ mops >= 2
    /\ mixin[mlast.m].random.recorded
    /\ mixin[mlast.m].random.names # {}
    /\ \A n \in PortNames : mixin[mlast.m].ports[n] > 0
    /\ PathExists(files, mixin[mlast.m].connection_file)

\* The ports whose value the step's load took from the info it was given.
SuppliedByInfo(m) ==
    {n \in PortNames \cap mlast'.info.keys :
        /\ mlast'.info.ports[n] > 0
        /\ mixin'[m].ports[n] = mlast'.info.ports[n]
        /\ (mlast'.op = "force" \/ mixin[m].ports[n] = NoPort)}

HoldingDirs == {i \in 1..Len(fargs.path) : fatime[<<AbsDir(fargs.path[i]), fargs.filename>>] > 0}

\* The name asked for is the name of a file in a directory of the search path.
ExactExists == fargs.filename \in FileNames /\ HoldingDirs # {}

\* C18: when the name given is exactly the name of an existing file in the
\* search path, find_connection_file returns the absolute path of that file (in
\* the first directory of the path that has it) and does not evaluate the glob.
C18_ExactNameFirst ==
    (fres.op = "find" /\ ExactExists)
        => (/\ fres.raised = ""
            /\ ~fres.globbed
            /\ \E i \in HoldingDirs :
                  /\ fres.found = <<AbsDir(fargs.path[i]), fargs.filename>>
                  /\ \A j \in HoldingDirs : i <= j)

\* The call has returned the file of the exact name from the working directory
\* although the file of that name in the runtime directory, and another file the
\* pattern would match, were accessed later.
C18_Witness ==
    /\ fres.op = "find"
    /\ fargs.filename = <<"k", "1">>
    /\ fargs.path = <<".", RuntimeDir>>
    /\ fres.found = <<Cwd, <<"k", "1">>>>
    /\ fatime[<<Cwd, <<"k", "1">>>>] > 0
    /\ fatime[<<RuntimeDir, <<"k", "1">>>>] > fatime[<<Cwd, <<"k", "1">>>>]
    /\ fatime[<<Cwd, <<"k", "2">>>>] > fatime[<<Cwd, <<"k", "1">>>>]

\* The existing files of the search path that the pattern of the call matches.
MatchSet ==
    {f \in AllFiles :
        /\ fatime[f] > 0
        /\ \E i \in 1..Len(fargs.path) : AbsDir(fargs.path[i]) = f[1]
        /\ GlobMatch(GlobPattern(fargs.filename), f[2])}

\* C19: when the exact lookup fails and the glob matches more than one file,
\* find_connection_file returns the match with the greatest access time, among
\* equal access times the one collected last; after another match has been made
\* the most recently accessed, the call returns that match.
C19_LatestAccessWins ==
    (fres.op = "find" /\ ~ExactExists /\ Cardinality(MatchSet) > 1)
        => (/\ fres.raised = ""
            /\ fres.globbed
            /\ {fres.matches[i] : i \in 1..Len(fres.matches)} = MatchSet
            /\ Len(fres.matches) = Cardinality(MatchSet)
            /\ \E i \in 1..Len(fres.matches) :
                  /\ fres.found = fres.matches[i]
                  /\ \A j \in 1..Len(fres.matches) :
                        /\ fatime[fres.matches[j]] <= fatime[fres.found]
                        /\ j > i => fatime[fres.matches[j]] < fatime[fres.found]
            /\ fres.touched \in MatchSet => fres.found = fres.touched)

\* The call has returned the match that was touched just before it, out of
\* three matches or more, two of which have the same older access time.
C19_Witness ==
    /\ fres.op = "find"
    /\ ~ExactExists
    /\ Cardinality(MatchSet) >= 3
    /\ fres.touched \in MatchSet
    /\ fres.found = fres.touched
    /\ fres.found # fres.matches[Len(fres.matches)]
    /\ \E f, g \in MatchSet \ {fres.found} : f # g /\ fatime[f] = fatime[g]

\* C20: find_connection_file raises IOError when neither the exact lookup nor
\* the glob yields a file, and only then; what it returns is always an existing
\* file.
C20_NotFoundRaises ==
    fres.op = "find"
        => /\ (~ExactExists /\ MatchSet = {}) => fres.raised = "IOError"
           /\ fres.raised # "" => (~ExactExists /\ MatchSet = {})
           /\ fres.raised = "" => (fres.found \in AllFiles /\ fatime[fres.found] > 0)

\* The call has raised although the search path holds files: none has the name
\* or matches the pattern.
C20_Witness ==
    /\ fres.op = "find"
    /\ fres.raised = "IOError"
    /\ fres.globbed
    /\ fargs.filename = <<"k", "*">>
    /\ \E f \in AllFiles : fatime[f] > 0 /\ f[1] = RuntimeDir
    /\ RuntimeDir = fargs.path[1]

\* The calls of the factory.
FactoryCalls == {"is_provisioner_available", "create_provisioner_instance"}

\* The name of the last call could be resolved when the call was made: a
\* distribution advertised it, or it is the built-in name, which is recovered.
WasResolvable == pcall.resolvable \/ pcall.name = LocalProvisionerName

\* C21: is_provisioner_available returns true for a kernel spec whose provisioner
\* is registered or resolvable, and returns false with a warning, raising nothing,
\* for one whose provisioner is neither.
C21_AvailabilityIsAdvisory ==
    pcall.op = "is_provisioner_available"
        => /\ pcall.raised = ""
           /\ (pcall.registered \/ WasResolvable)
                 => (pcall.returned /\ "not available" \notin pcall.warned)
           /\ ~(pcall.registered \/ WasResolvable)
                 => (~pcall.returned /\ "not available" \in pcall.warned)

\* The call has answered false with the warning for a spec that names a
\* provisioner nobody advertises, while another provisioner is registered.
C21_Witness ==
    /\ pcall.op = "is_provisioner_available"
    /\ pcall.kernel_spec = "remote"
    /\ ~pcall.returned
    /\ pcall.warned = {"not available"}
    /\ pcall.raised = ""
    /\ LocalProvisionerName \in DOMAIN provisioners

\* C22: create_provisioner_instance for a spec naming a provisioner other than
\* the built-in one that is neither registered nor resolvable raises
\* ModuleNotFoundError, constructs nothing and leaves the registry as it was.
C22_UnresolvableRaises ==
    (/\ pcall.op = "create_provisioner_instance"
     /\ pcall.name # LocalProvisionerName
     /\ ~pcall.registered
     /\ ~pcall.resolvable)
        => /\ pcall.raised = "ModuleNotFoundError"
           /\ pcall.instance = NoInstance
           /\ provisioners = pcall.before
           /\ pcall.name \notin DOMAIN provisioners

\* The call has raised for the spec that names the remote provisioner.
C22_Witness ==
    /\ pcall.op = "create_provisioner_instance"
    /\ pcall.kernel_spec = "remote"
    /\ pcall.name = "remote-provisioner"
    /\ pcall.raised = "ModuleNotFoundError"
    /\ pcall.instance = NoInstance

C24_BuiltInRecovered ==
    (/\ pcall.op \in FactoryCalls
     /\ pcall.name = LocalProvisionerName
     /\ ~pcall.registered
     /\ ~pcall.resolvable)
        => /\ pcall.raised = ""
           /\ pcall.returned
           /\ pcall.warned = {"local-provisioner not found"}
           /\ LocalProvisionerName \in DOMAIN provisioners
           /\ provisioners[LocalProvisionerName].module_name = "jupyter_client.provisioning"
           /\ provisioners[LocalProvisionerName].object_name = "LocalProvisioner"
           /\ pcall.op = "create_provisioner_instance"
                 => pcall.instance.class = <<"jupyter_client.provisioning", "LocalProvisioner">>

\* The built-in class has been constructed although nobody advertised it and the
\* registry did not have it.
C24_Witness ==
    /\ pcall.op = "create_provisioner_instance"
    /\ pcall.name = LocalProvisionerName
    /\ ~pcall.registered
    /\ ~pcall.resolvable
    /\ pcall.before = <<>>
    /\ pcall.instance.class = <<"jupyter_client.provisioning", "LocalProvisioner">>
    /\ provisioners[LocalProvisionerName] = BuiltInEntryPoint

\* C25: over the calls of is_provisioner_available and
\* create_provisioner_instance the registry only grows: no entry is removed or
\* replaced, an entry is added only for the name of a call that resolved it, a
\* call that fails leaves the registry as it was, and a call for a name that is
\* not registered looks it up again and registers it when it is advertised by
\* then.
C25_RegistryOnlyGrows ==
    [][/\ \A n \in DOMAIN provisioners :
             n \in DOMAIN provisioners' /\ provisioners'[n] = provisioners[n]
       /\ \A n \in DOMAIN provisioners' \ DOMAIN provisioners :
             /\ pcall'.op \in FactoryCalls
             /\ pcall'.name = n
             /\ pcall'.returned
       /\ (pcall'.op \in FactoryCalls /\ ~pcall'.returned) => provisioners' = provisioners
       /\ (pcall'.op \in FactoryCalls /\ pcall'.name \notin DOMAIN provisioners)
             => /\ pcall'.looked_up
                /\ entry_points[pcall'.name] # NoDistribution
                      => /\ pcall'.returned
                         /\ provisioners'[pcall'.name] =
                               EntryPointOf(pcall'.name, entry_points[pcall'.name])
      ]_vars

\* A call has resolved and registered a name that an earlier call had failed to
\* resolve, next to an entry that was there before.
C25_Witness ==
    /\ pcall.op \in FactoryCalls
    /\ pcall.name \in pcall.failed
    /\ pcall.returned
    /\ pcall.looked_up
    /\ pcall.name \notin DOMAIN pcall.before
    /\ pcall.before # <<>>
    /\ DOMAIN provisioners = ProvisionerNames

\* The connection info the tunnel call worked on.
TunnelCf == IF targs.is_path THEN targs.file ELSE targs.connection_info

\* C26: tunnel_to_kernel opens exactly five tunnels, the i-th from the i-th
\* local port to the remote port of the i-th channel in the order shell, iopub,
\* stdin, hb, control, all against the ip of the connection info, and returns
\* the five local ports in that order.
C26_FiveTunnelsInOrder ==
    (tres.op = "tunnel_to_kernel" /\ ~tres.raised)
        => LET order == <<"shell_port", "iopub_port", "stdin_port", "hb_port",
                          "control_port">>
           IN  /\ Len(tres.tunnels) = 5
               /\ Len(tres.returned) = 5
               /\ \A i \in 1..5 :
                     /\ tres.tunnels[i].lport = tres.lports[i]
                     /\ tres.tunnels[i].rport = TunnelCf.ports[order[i]]
                     /\ tres.tunnels[i].remoteip = TunnelCf.ip
                     /\ tres.tunnels[i].server = targs.sshserver
                     /\ tres.returned[i] = tres.tunnels[i].lport

\* The call has returned after tunnelling to a kernel, read from a file, whose
\* heartbeat port is not the fourth in the order the ports are written.
C26_Witness ==
    /\ tres.op = "tunnel_to_kernel"
    /\ ~tres.raised
    /\ targs.is_path
    /\ Len(tres.tunnels) = 5
    /\ tres.tunnels[4].rport = TunnelCf.ports["hb_port"]
    /\ TunnelCf.ports["hb_port"] # TunnelCf.ports["control_port"]
    /\ tres.tunnels[4].remoteip = "10.0.0.5"
    /\ tres.returned[1] > tres.returned[5]

C28_NothingLeftBehind ==
    wres.raised \notin {"none", ""} => \A p \in Paths : ~PathExists(files, p)

\* The positions of a thread inside the loop of find_available_port.
InFindLoop(t) == pc[t] \in {"bind", "close", "check"}

\* C29: every call of find_available_port returns a port, unless from some
\* moment on every port the OS yields is claimed when it is checked; and a port
\* is returned only after a check that found it not in the claimed set.
C29_FindReturns ==
    /\ \A t \in Threads :
          \/ <>[](InFindLoop(t) /\ (pc[t] = "check" => port[t] \in currently_used_ports))
          \/ [](InFindLoop(t) => <>(pc[t] = "idle"))
    /\ [][\A t \in Threads :
             /\ (pc[t] # "add" /\ pc'[t] = "add")
                   => (pc[t] = "check" /\ port[t] \notin currently_used_ports
                       /\ port'[t] = port[t])
             /\ (last'.op = "find" /\ last' # last /\ pc[t] = "add" /\ pc'[t] = "idle")
                   => last'.port = port[t]
         ]_vars

\* A call has returned the one port that was not claimed: the other ports of
\* the pool were in the set when it was checked.
C29_Witness ==
    /\ last.op = "find"
    /\ last.port \notin last.before
    /\ last.before = PortPool \ {last.port}
    /\ currently_used_ports = PortPool
    /\ pc[1] = "idle"

\* C30: write_connection_file hands the allocated ports to the unset channels in
\* the order shell, iopub, stdin, control, hb: the k-th unset channel receives
\* the k-th allocated port, there are as many allocated ports as unset channels,
\* and every configured port (> 0) is written unchanged.
C30_AllocatedInChannelOrder ==
    wres.raised = ""
        => LET order == <<"shell_port", "iopub_port", "stdin_port", "control_port",
                          "hb_port">>
               unsetUpTo(k) == Cardinality({j \in 1..k : wargs.ports[order[j]] <= 0})
           IN  /\ Len(wres.allocated) = unsetUpTo(5)
               /\ \A k \in 1..5 :
                     IF wargs.ports[order[k]] <= 0
                     THEN wres.cfg.ports[order[k]] = wres.allocated[unsetUpTo(k)]
                     ELSE wres.cfg.ports[order[k]] = wargs.ports[order[k]]
               /\ files[wres.fname].cfg.ports = wres.cfg.ports

\* shell and stdin were configured; the sockets were bound to 3, 1, 5 and these
\* went to iopub, control and hb.
C30_Witness ==
    /\ wres.raised = ""
    /\ wargs.transport = "tcp"
    /\ wargs.ports["shell_port"] = 4
    /\ wargs.ports["iopub_port"] = -1
    /\ wargs.ports["stdin_port"] = 2
    /\ wargs.ports["control_port"] = 0
    /\ wargs.ports["hb_port"] = 0
    /\ wres.allocated = <<3, 1, 5>>
    /\ wres.cfg.ports["shell_port"] = 4
    /\ wres.cfg.ports["iopub_port"] = 3
    /\ wres.cfg.ports["stdin_port"] = 2
    /\ wres.cfg.ports["control_port"] = 1
    /\ wres.cfg.ports["hb_port"] = 5

\* C31: the provisioner configuration derived from a kernel spec always has a
\* name and an options mapping; a stanza with a name and no config gets an empty
\* config added in place, its name and other entries unchanged; a stanza with
\* both is returned as it is.
C31_ConfigAlwaysPresent ==
    pcall.op \in FactoryCalls
        => LET was == InitialMetadata[pcall.kernel_spec]
               now == metadata[pcall.kernel_spec]
           IN  /\ pcall.name \in ProvisionerNames
               /\ pcall.config \in {NoOptions, SomeOptions}
               /\ ("provisioner_name" \in was.keys /\ "config" \notin was.keys)
                     => /\ now.keys = was.keys \cup {"config"}
                        /\ now.config = NoOptions
                        /\ now.provisioner_name = was.provisioner_name
                        /\ pcall.name = was.provisioner_name
                        /\ pcall.config = NoOptions
               /\ ("provisioner_name" \in was.keys /\ "config" \in was.keys)
                     => /\ now = was
                        /\ pcall.name = was.provisioner_name
                        /\ pcall.config = was.config
               /\ "provisioner_name" \notin was.keys => now = was

\* The stanza that names the local provisioner, next to another entry and
\* without a config, has been given the empty config by a call.
C31_Witness ==
    /\ pcall.op \in FactoryCalls
    /\ pcall.kernel_spec = "local"
    /\ InitialMetadata["local"].keys = {"provisioner_name", "comment"}
    /\ metadata["local"].keys = {"provisioner_name", "comment", "config"}
    /\ metadata["local"].config = NoOptions
    /\ pcall.config = NoOptions
    /\ metadata["remote"] = InitialMetadata["remote"]

\* C32: in every state of the registry and the entry points and for every kernel
\* spec, is_provisioner_available returns true exactly when
\* create_provisioner_instance on the same spec in the same state does not raise
\* ModuleNotFoundError, and both derive the same provisioner name.
C32_AvailableIffCreatable ==
    \A s \in KernelSpecs, k \in KernelIds, p \in Parents :
        LET a == is_provisioner_available(provisioners, entry_points, metadata[s],
                                          default_provisioner_name)
            c == create_provisioner_instance(provisioners, entry_points, metadata[s],
                                             default_provisioner_name, k, s, p)
        IN  /\ a.returned <=> (c.raised # "ModuleNotFoundError")
            /\ a.name = c.name
            /\ a.provisioners = c.provisioners

\* create_provisioner_instance has just raised for a spec for which
\* is_provisioner_available answers false in the state it left, while it answers
\* true for the spec without a stanza.
C32_Witness ==
    /\ pcall.op = "create_provisioner_instance"
    /\ pcall.raised = "ModuleNotFoundError"
    /\ provisioners = pcall.before
    /\ ~is_provisioner_available(provisioners, entry_points, metadata[pcall.kernel_spec],
                                 default_provisioner_name).returned
    /\ is_provisioner_available(provisioners, entry_points, metadata["bare"],
                                default_provisioner_name).returned
    /\ pcall.kernel_spec # "bare"

(***************************************************************************)
(* The ipc sockets of a kernel another process started                     *)
(***************************************************************************)

\* The socket files of the kernel InfoIpc describes: "%s-%i" % (ip, port) for
\* each of its five ports.
KernelSockets == {<<InfoIpc.ip, InfoIpc.ports[n]>> : n \in PortNames}

\* A kernel started elsewhere has bound its ipc sockets; A is a manager
\* configured for ipc with no port set, B a client as constructed.
IpcInit ==
    /\ CacheVarsInit({})
    /\ files = [p \in Paths |-> AbsentFile]
    /\ ipcfiles = KernelSockets
    /\ WriteIdle
    /\ mixin \in {[m \in Mixins |->
                       IF m = "A" THEN a
                       ELSE [FreshMixin EXCEPT !.connection_file = a.connection_file]] :
                    a \in {x \in ConfiguredMixins :
                              x.transport = "ipc" /\ x.ports = NoPorts}}
    /\ mlast = NoMixinCall
    /\ mops = 0
    /\ PureIdle

SpecIpc == IpcInit /\ [][MixinNext]_vars

\* C33 as claimed: cleanup_ipc_files removes socket files only when the
\* transport is ipc and the instance is one that wrote them: with transport tcp
\* it removes nothing, and an instance that never wrote a connection file (a
\* client, which only loads connection info) removes nothing either.
C33_IpcCleanupOnlyOwn ==
    mlast.op = "cleanup_ipc"
       => /\ mixin[mlast.m].transport # "ipc" => ~mlast.removed
          /\ mlast.m \notin Managers => ~mlast.removed

\* C34 as claimed: cleanup_random_ports does nothing unless the transport is
\* tcp: called on a mixin whose transport is not tcp, it changes no attribute
\* (no port is reset) and removes no file.
C34_NothingUnlessTcp ==
    (mlast.op = "cleanup_random" /\ mixin[mlast.m].transport # "tcp")
       => (mlast.noop /\ ~mlast.removed)

\* C35: a mixin whose written flag is set has its five ports positive.
C35_WrittenPortsPositive ==
    \A m \in Mixins :
       mixin[m].written => \A n \in PortNames : mixin[m].ports[n] > 0

\* A mixin configured with shell_port = -1 and the other ports unset wrote its
\* file, the five ports allocated, and has loaded connection info since: the
\* flag is still set.
C35_Witness ==
    /\ mlast.op = "load_info"
    /\ mixin[mlast.m].written
    /\ mixin[mlast.m].random.names = PortNames
    /\ mixin[mlast.m].key = <<107>>
    /\ \A n \in PortNames : mixin[mlast.m].ports[n] \in 1..PoolSize + 5

\* C36 as claimed: a port value that write_connection_file replaces and that
\* _record_random_port_names records as random (<= 0, negative values
\* included) is overwritten by load_connection_info when the info names the
\* port.
C36_UnsetPortsAgree ==
    lres.op = "load"
       => \A n \in PortNames :
             (/\ PortIsUnset(largs.x.ports[n])
              /\ RecordsAsRandom(largs.x.ports[n])
              /\ n \in largs.info.keys)
                => lres.x.ports[n] = largs.info.ports[n]

\* C37 as claimed: load_connection_info of info without an ip entry leaves an
\* ip that was configured on the mixin as it is.
C37_IpKeptWithoutEntry ==
    (/\ lres.op = "load"
     /\ "ip" \notin largs.info.keys
     /\ largs.x.ip # LazyIp)
       => lres.x.ip = largs.x.ip

====
